---- MODULE Spec2Model ----
(***************************************************************************)
(* A model of nanoclaw's agent runner: the file-drop IPC writer and the    *)
(* IPC tools (ipc-mcp), the sandboxed built-in tools (builtin-tools) and   *)
(* the tool-calling session loop (custom-provider).                        *)
(*                                                                         *)
(* Texts are modelled as sequences of tokens: a template's fixed pieces    *)
(* and the values interpolated into it.  Every specification below drives  *)
(* its own group of variables and leaves the others at their initial value.*)
(***************************************************************************)
EXTENDS Integers, Sequences, FiniteSets, TLC

VARIABLES
    \* ---- writeIpcFile at system-call granularity (SpecWriter)
    clock,        \* Date.now(), shared wall clock
    dirEntries,   \* directory entries of the IPC directories: [dir, name, tmp, ino]
    inodes,       \* file contents by inode: [content]
    wpc,          \* per process: position inside writeIpcFile
    wname,        \* per process: the generated file name
    wdir,         \* per process: the target directory of the call
    wfd,          \* per process: inode of the open staging file
    woff,         \* per process: chunks of the payload written so far
    wcalls,       \* writeIpcFile calls started, over all processes
    generated,    \* history: how many calls generated each [dir, name]
    \* ---- the IPC tools, one step per tool call (SpecIpc)
    ctx,          \* the invocation context: [chatJid, groupFolder, isMain]
    callArgs,     \* the argument record the model passes to the tools
    ipcFiles,     \* the published files of the IPC directories: [dir, name, data]
    lastCall,     \* the last tool call and what it returned
    ipcCalls,     \* tool calls made
    \* ---- list_tasks over two snapshots (SpecList)
    snapA,        \* current_tasks.json as the host wrote it, first snapshot
    snapB,        \* current_tasks.json, second snapshot
    outA,         \* what list_tasks returned over snapA
    outB,         \* what list_tasks returned over snapB
    \* ---- the built-in file tools, one step per tool call (SpecTools)
    fs,           \* the container's files: absolute path -> file
    ioLog,        \* the file system calls made: [op, path]
    lastTool,     \* the last tool call and what it returned
    toolCalls,    \* tool calls made
    \* ---- runCustomProvider, one invocation (SpecLoop)
    input,        \* ContainerInput, and whether a provider is configured
    script,       \* the endpoint: the completion it returns in each round
    sessionId,    \* let sessionId
    sessionAtStart, \* history: the session file when the invocation started
    lpc,          \* position inside runCustomProvider
    round,        \* let round
    messages,     \* let messages
    result,       \* let result
    outputs,      \* the records passed to writeOutput, in order
    requests,     \* completion requests issued
    executed,     \* the ids of the tool calls whose executor was run, in order
    rethrown,     \* runCustomProvider rejected (throw err, line 245)
    \* ---- invocations of runCustomProvider that share session files (SpecSessions)
    runs,         \* per process: [pc, sessionId, messages, round, started]
    \* ---- the web server (SpecWeb)
    req,          \* the request being handled: method, url, body
    hpc,          \* position of the request callback and of handleAsk
    sent,         \* the status codes written to res, in order
    agentRuns,    \* the prompts runContainerAgent was called with for req
    handled       \* requests received so far

writerVars == <<clock, dirEntries, inodes, wpc, wname, wdir, wfd, woff, wcalls, generated>>

ipcVars == <<ctx, callArgs, ipcFiles, lastCall, ipcCalls>>

listVars == <<snapA, snapB, outA, outB>>

toolVars == <<fs, ioLog, lastTool, toolCalls>>

loopVars == <<input, script, sessionId, sessionAtStart, lpc, round, messages, result,
              outputs, requests, executed, rethrown>>

sessionVars == <<runs>>

webVars == <<req, hpc, sent, agentRuns, handled>>

vars == <<writerVars, ipcVars, listVars, toolVars, loopVars, sessionVars, webVars>>

\* what a step of one component leaves alone: the other components
notWriter == <<ipcVars, listVars, toolVars, loopVars, sessionVars, webVars>>
notIpc ==
    <<dirEntries, inodes, wpc, wname, wdir, wfd, woff, wcalls, generated,
      listVars, toolVars, loopVars, sessionVars, webVars>>
notList ==
    <<writerVars, callArgs, ipcFiles, lastCall, ipcCalls, toolVars, loopVars, sessionVars,
      webVars>>
notTools == <<writerVars, ipcVars, listVars, loopVars, sessionVars, webVars>>
notLoop == <<writerVars, ipcVars, listVars, lastTool, toolCalls, sessionVars, webVars>>
notSessions ==
    <<writerVars, ipcVars, listVars, ioLog, lastTool, toolCalls, loopVars, webVars>>
notWeb == <<writerVars, ipcVars, listVars, toolVars, loopVars, sessionVars>>

None == "none"

Max(a, b) == IF a >= b THEN a ELSE b

(***************************************************************************)
(* writeIpcFile (ipc-mcp), one step per system call                        *)
(***************************************************************************)

\* the processes that run writeIpcFile against the same IPC mount
Writers == {"w1", "w2"}

\* fs.writeFileSync loops over write(2) until the whole buffer is written:
\* the serialized payload reaches the file in up to ChunkCount pieces
ChunkCount == 2
\* the wall clock runs from 0 to MaxClock
MaxClock == 1
\* writeIpcFile calls over all processes
MaxWrites == 2

MESSAGES_DIR == "messages"
TASKS_DIR == "tasks"
IpcDirs == {MESSAGES_DIR, TASKS_DIR}

\* the payload object a process hands to writeIpcFile
DataOf(w) == <<"data", w>>
WriterData == {DataOf(w) : w \in Writers}

\* Math.random().toString(36).slice(2, 8): the random suffix of a name
RandomSuffixes == {"r1", "r2"}

\* JSON.stringify(data, null, 2), as the pieces that reach the file
Stringify(data) == [i \in 1..ChunkCount |-> <<data, i>>]

\* JSON.parse succeeds on a content: it is the whole text of one payload
ParsesAsJson(content) == \E d \in WriterData : content = Stringify(d)

\* the mutant of FileName: the stamp counts down as the clock goes up
FileName_CountingDown(now, rnd) == <<MaxClock - now, rnd, ".json">>

\* `${Date.now()}-${random}.json`
FileName(now, rnd) == <<now, rnd, ".json">>

\* the mutant of TempPath: the payload is written under the final name
TempPath_Direct(filename) == [name |-> filename, tmp |-> FALSE]

\* `${filepath}.tmp`: the staging path lies in the target directory itself
TempPath(filename) == [name |-> filename, tmp |-> TRUE]

FinalPath(filename) == [name |-> filename, tmp |-> FALSE]

Lookup(dir, path) ==
    {e \in dirEntries : e.dir = dir /\ e.name = path.name /\ e.tmp = path.tmp}

Hole == <<<<"data", "hole">>, 0>>

\* write(2) of piece i at file offset i - 1
WriteAt(content, i, piece) ==
    [j \in 1..Max(Len(content), i) |->
        IF j = i THEN piece ELSE IF j <= Len(content) THEN content[j] ELSE Hole]

\* one more use of key k in the counting function f
Count(f, k) ==
    [x \in DOMAIN f \cup {k} |-> IF x = k THEN (IF k \in DOMAIN f THEN f[k] + 1 ELSE 1) ELSE f[x]]

\* no writeIpcFile call has started
WriterIdle ==
    /\ dirEntries = {}
    /\ inodes = <<>>
    /\ wpc = [w \in Writers |-> "idle"]
    /\ wname = [w \in Writers |-> None]
    /\ wdir = [w \in Writers |-> None]
    /\ wfd = [w \in Writers |-> 0]
    /\ woff = [w \in Writers |-> 0]
    /\ wcalls = 0
    /\ generated = [k \in {} |-> 0]

\* Date.now() advances
Tick ==
    /\ clock < MaxClock
    /\ clock' = clock + 1
    /\ UNCHANGED <<notIpc, ipcVars>>

\* lines 23-26: mkdirSync, then the name from the clock and the random suffix
WriterBegin(w) ==
    /\ wpc[w] \in {"idle", "returned", "threw"}
    /\ wcalls < MaxWrites
    /\ \E dir \in IpcDirs, rnd \in RandomSuffixes :
        /\ wname' = [wname EXCEPT ![w] = FileName(clock, rnd)]
        /\ wdir' = [wdir EXCEPT ![w] = dir]
        /\ generated' = Count(generated, <<dir, FileName(clock, rnd)>>)
    /\ wpc' = [wpc EXCEPT ![w] = "named"]
    /\ wcalls' = wcalls + 1
    /\ UNCHANGED <<clock, dirEntries, inodes, wfd, woff>>
    /\ UNCHANGED notWriter

\* line 30, open(tempPath, O_WRONLY | O_CREAT | O_TRUNC)
WriterOpen(w) ==
    /\ wpc[w] = "named"
    /\ LET path == TempPath(wname[w])
           old == Lookup(wdir[w], path)
       IN IF old # {}
          THEN LET ino == (CHOOSE e \in old : TRUE).ino
               IN /\ inodes' = [inodes EXCEPT ![ino] = [content |-> <<>>]]
                  /\ wfd' = [wfd EXCEPT ![w] = ino]
                  /\ UNCHANGED dirEntries
          ELSE /\ inodes' = Append(inodes, [content |-> <<>>])
               /\ wfd' = [wfd EXCEPT ![w] = Len(inodes) + 1]
               /\ dirEntries' = dirEntries \cup
                    {[dir |-> wdir[w], name |-> path.name, tmp |-> path.tmp,
                      ino |-> Len(inodes) + 1]}
    /\ wpc' = [wpc EXCEPT ![w] = "writing"]
    /\ UNCHANGED <<clock, wname, wdir, woff, wcalls, generated>>
    /\ UNCHANGED notWriter

\* line 30, one write(2) of the loop inside writeFileSync; close after the last
WriterWrite(w) ==
    /\ wpc[w] = "writing"
    /\ woff[w] < ChunkCount
    /\ inodes' = [inodes EXCEPT ![wfd[w]].content =
                     WriteAt(@, woff[w] + 1, Stringify(DataOf(w))[woff[w] + 1])]
    /\ woff' = [woff EXCEPT ![w] = @ + 1]
    /\ wpc' = [wpc EXCEPT ![w] = IF woff[w] + 1 = ChunkCount THEN "written" ELSE "writing"]
    /\ UNCHANGED <<clock, dirEntries, wname, wdir, wfd, wcalls, generated>>
    /\ UNCHANGED notWriter

\* the call is over: its locals are gone
WriterLeaves(w, how) ==
    /\ wpc' = [wpc EXCEPT ![w] = how]
    /\ wname' = [wname EXCEPT ![w] = None]
    /\ wdir' = [wdir EXCEPT ![w] = None]
    /\ wfd' = [wfd EXCEPT ![w] = 0]
    /\ woff' = [woff EXCEPT ![w] = 0]

\* line 30, writeFileSync throws (disk full, permission): writeIpcFile throws
WriterWriteFails(w) ==
    /\ wpc[w] = "writing"
    /\ WriterLeaves(w, "threw")
    /\ UNCHANGED <<clock, dirEntries, inodes, wcalls, generated>>
    /\ UNCHANGED notWriter

\* line 31, rename(tempPath, filepath): atomic, replaces an entry of that name;
\* ENOENT when the staging entry is gone
WriterRename(w) ==
    /\ wpc[w] = "written"
    /\ LET from == Lookup(wdir[w], TempPath(wname[w]))
           to == Lookup(wdir[w], FinalPath(wname[w]))
       IN IF from = {}
          THEN /\ WriterLeaves(w, "threw")
               /\ UNCHANGED dirEntries
          ELSE /\ dirEntries' = (dirEntries \ (from \cup to)) \cup
                    {[dir |-> wdir[w], name |-> wname[w], tmp |-> FALSE,
                      ino |-> (CHOOSE e \in from : TRUE).ino]}
               /\ WriterLeaves(w, "returned")
    /\ UNCHANGED <<clock, inodes, wcalls, generated>>
    /\ UNCHANGED notWriter

\* line 31, renameSync throws for a reason of the file system
WriterRenameFails(w) ==
    /\ wpc[w] = "written"
    /\ WriterLeaves(w, "threw")
    /\ UNCHANGED <<clock, dirEntries, inodes, wcalls, generated>>
    /\ UNCHANGED notWriter

\* what a concurrent reader (the host) gets when it lists an IPC directory now
\* and reads each entry: readdirSync, then readFileSync
Listing(dir) ==
    {[dir |-> e.dir, name |-> e.name, tmp |-> e.tmp, content |-> inodes[e.ino].content] :
        e \in {x \in dirEntries : x.dir = dir}}

\* the number of writeIpcFile calls that generated this name for this directory
NameUses(dir, name) ==
    IF <<dir, name>> \in DOMAIN generated THEN generated[<<dir, name>>] ELSE 0

\* no tool call is in progress and none was made
IpcIdle ==
    /\ ctx = None
    /\ callArgs = None
    /\ ipcFiles = {}
    /\ lastCall = None
    /\ ipcCalls = 0

\* list_tasks was not called
ListIdle ==
    /\ snapA = None
    /\ snapB = None
    /\ outA = None
    /\ outB = None

\* no file tool was called
ToolsIdle ==
    /\ fs = <<>>
    /\ ioLog = {}
    /\ lastTool = None
    /\ toolCalls = 0

\* runCustomProvider was not called
LoopIdle ==
    /\ input = None
    /\ script = None
    /\ sessionId = None
    /\ sessionAtStart = None
    /\ lpc = "idle"
    /\ round = 0
    /\ messages = <<>>
    /\ result = None
    /\ outputs = <<>>
    /\ requests = 0
    /\ executed = <<>>
    /\ rethrown = FALSE

\* no invocation shares a session file with another
SessionsIdle == runs = None

\* the web server has received no request
WebIdle ==
    /\ req = None
    /\ hpc = "listening"
    /\ sent = <<>>
    /\ agentRuns = <<>>
    /\ handled = 0

InitWriter ==
    /\ clock = 0
    /\ WriterIdle
    /\ IpcIdle
    /\ ListIdle
    /\ ToolsIdle
    /\ LoopIdle
    /\ SessionsIdle
    /\ WebIdle

NextWriter ==
    \/ Tick
    \/ \E w \in Writers : WriterBegin(w)
    \/ \E w \in Writers : WriterOpen(w)
    \/ \E w \in Writers : WriterWrite(w)
    \/ \E w \in Writers : WriterWriteFails(w)
    \/ \E w \in Writers : WriterRename(w)
    \/ \E w \in Writers : WriterRenameFails(w)

SpecWriter == InitWriter /\ [][NextWriter]_vars

(***************************************************************************)
(* Strings the tools inspect, as sequences of characters                    *)
(***************************************************************************)

\* an argument the caller left out (undefined)
Missing == <<"undefined">>

Cron5 == <<"*", "/", "5", " ", "*", " ", "*", " ", "*", " ", "*">>
NotACron == <<"n", "o", "t", "-", "a", "-", "c", "r", "o", "n">>
Ms300000 == <<"3", "0", "0", "0", "0", "0">>
MinusFive == <<"-", "5">>
Abc == <<"a", "b", "c">>
Zero == <<"0">>
LocalStamp ==
    <<"2", "0", "2", "6", "-", "0", "2", "-", "0", "1", "T",
      "1", "5", ":", "3", "0", ":", "0", "0">>
NotADate == <<"n", "o", "t", "-", "a", "-", "d", "a", "t", "e">>
EmptyString == <<>>

DigitChars == {"0", "1", "2", "3", "4", "5", "6", "7", "8", "9"}

DigitValue(c) ==
    CASE c = "0" -> 0 [] c = "1" -> 1 [] c = "2" -> 2 [] c = "3" -> 3 [] c = "4" -> 4
      [] c = "5" -> 5 [] c = "6" -> 6 [] c = "7" -> 7 [] c = "8" -> 8 [] c = "9" -> 9

RECURSIVE DigitsValue(_)
DigitsValue(ds) ==
    IF ds = <<>> THEN 0
    ELSE DigitsValue(SubSeq(ds, 1, Len(ds) - 1)) * 10 + DigitValue(ds[Len(ds)])

\* parseInt(s, 10): leading white space, an optional sign, then the longest
\* run of digits; NaN when that run is empty
ParseInt(s) ==
    LET b == IF \E i \in 1..Len(s) : s[i] # " "
             THEN CHOOSE i \in 1..Len(s) : s[i] # " " /\ \A j \in 1..(i - 1) : s[j] = " "
             ELSE Len(s) + 1
        signed == b <= Len(s) /\ s[b] \in {"-", "+"}
        neg == b <= Len(s) /\ s[b] = "-"
        d == IF signed THEN b + 1 ELSE b
        n == CHOOSE k \in 0..(Len(s) + 1 - d) :
                /\ \A i \in d..(d + k - 1) : s[i] \in DigitChars
                /\ (d + k > Len(s) \/ s[d + k] \notin DigitChars)
        val == DigitsValue(SubSeq(s, d, d + n - 1))
    IN IF n = 0 THEN [nan |-> TRUE, val |-> 0]
       ELSE [nan |-> FALSE, val |-> IF neg THEN 0 - val ELSE val]

\* CronExpressionParser.parse(v) returns (cron-parser, outside the repository):
\* of the values the model passes as a cron expression, the one it accepts
CronParses(v) == v \in {Cron5}

\* !isNaN(new Date(v).getTime()) (the JavaScript engine's Date): of the values
\* the model passes as a timestamp, the one it accepts
DateParses(v) == v \in {LocalStamp}

\* isNaN(ms) || ms <= 0 is false
IntervalParses(v) == LET ms == ParseInt(v) IN ~(ms.nan \/ ms.val <= 0)

ScheduleKinds == {"cron", "interval", "once"}

\* the branch of the validation that the declared kind selects
Validates(kind, v) ==
    CASE kind = "cron" -> CronParses(v)
      [] kind = "interval" -> IntervalParses(v)
      [] kind = "once" -> DateParses(v)
      [] OTHER -> TRUE

(***************************************************************************)
(* The IPC tools: createIpcMcp (the SDK tool server, "sdk") and             *)
(* getIpcToolsForOpenAI (the function-calling executors, "openai")          *)
(***************************************************************************)

\* tool calls of one run
MaxIpcCalls == 2

MainCtx == [chatJid |-> "main@g.us", groupFolder |-> "main", isMain |-> TRUE]
GroupCtx == [chatJid |-> "family@g.us", groupFolder |-> "family-chat", isMain |-> FALSE]
Contexts == {MainCtx, GroupCtx}

\* another registered group, which a caller may name as the target
OtherJid == "other@g.us"
OtherFolder == "other-group"

\* schedule_type and schedule_value as the caller passes them
ScheduleCases ==
    {[type |-> "cron", value |-> Cron5],
     [type |-> "cron", value |-> NotACron],
     [type |-> "cron", value |-> Ms300000],
     [type |-> "interval", value |-> Ms300000],
     [type |-> "interval", value |-> MinusFive],
     [type |-> "interval", value |-> Abc],
     [type |-> "interval", value |-> Zero],
     [type |-> "interval", value |-> LocalStamp],
     [type |-> "interval", value |-> Missing],
     [type |-> "once", value |-> LocalStamp],
     [type |-> "once", value |-> NotADate],
     [type |-> None, value |-> Cron5],
     [type |-> None, value |-> NotACron],
     [type |-> "weekly", value |-> Abc]}

\* context_mode and the target arguments as the caller passes them
TargetCases ==
    {[mode |-> None, jid |-> None, folder |-> None],
     [mode |-> None, jid |-> OtherJid, folder |-> OtherFolder],
     [mode |-> "isolated", jid |-> OtherJid, folder |-> OtherFolder]}

ArgRecords ==
    {[text |-> "hello", prompt |-> "check the weather",
      schedule_type |-> k.type, schedule_value |-> k.value,
      context_mode |-> t.mode, target_group_jid |-> t.jid, target_group |-> t.folder,
      task_id |-> "task-1",
      jid |-> OtherJid, name |-> "Other", folder |-> OtherFolder, trigger |-> "@Andy"] :
        k \in ScheduleCases, t \in TargetCases}

\* new Date().toISOString()
IsoNow(now) == <<"iso", now>>

\* what a handler does: the text it returns, the SDK's isError flag, and the
\* writeIpcFile calls it makes (none or one)
Returns(text, isError, writes) == [text |-> text, isError |-> isError, writes |-> writes]

WriteTo(dir, data) == {[dir |-> dir, data |-> data]}

\* ---- createIpcMcp

\* lines 49-66
SdkSendMessage(c, a, now, fname) ==
    Returns(<<"Message sent.">>, FALSE,
            WriteTo(MESSAGES_DIR,
                    [type |-> "message", chatJid |-> c.chatJid, text |-> a.text,
                     groupFolder |-> c.groupFolder, timestamp |-> IsoNow(now)]))

\* lines 96-121: the rejection text, or <<>> when the value passes
SdkValidate(kind, v) ==
    CASE kind = "cron" /\ ~CronParses(v) ->
            <<"Invalid cron: \"", v,
              "\". Use format like \"0 9 * * *\" (daily 9am) or \"*/5 * * * *\" (every 5 min).">>
      [] kind = "interval" /\ ~IntervalParses(v) ->
            <<"Invalid interval: \"", v,
              "\". Must be positive milliseconds (e.g., \"300000\" for 5 min).">>
      [] kind = "once" /\ ~DateParses(v) ->
            <<"Invalid timestamp: \"", v,
              "\". Use ISO 8601 format like \"2026-02-01T15:30:00.000Z\".">>
      [] OTHER -> <<>>

\* the mutant of SdkTargetJid: the target argument is honoured for every caller
SdkTargetJid_Unchecked(c, a) ==
    IF a.target_group_jid # None THEN a.target_group_jid ELSE c.chatJid

\* line 124
SdkTargetJid(c, a) ==
    IF c.isMain /\ a.target_group_jid # None THEN a.target_group_jid ELSE c.chatJid

\* lines 126-135
SdkScheduleData(c, a, now) ==
    [type |-> "schedule_task", prompt |-> a.prompt,
     schedule_type |-> a.schedule_type, schedule_value |-> a.schedule_value,
     context_mode |-> IF a.context_mode = None THEN "group" ELSE a.context_mode,
     targetJid |-> SdkTargetJid(c, a), createdBy |-> c.groupFolder,
     timestamp |-> IsoNow(now)]

\* the mutant of SdkScheduleTask: the payload is written before the validation
SdkScheduleTask_WriteFirst(c, a, now, fname) ==
    LET rejection == SdkValidate(a.schedule_type, a.schedule_value)
        writes == WriteTo(TASKS_DIR, SdkScheduleData(c, a, now))
    IN IF rejection # <<>>
       THEN Returns(rejection, TRUE, writes)
       ELSE Returns(<<"Task scheduled (", fname, "): ", a.schedule_type, " - ",
                      a.schedule_value>>, FALSE, writes)

\* lines 94-145
SdkScheduleTask(c, a, now, fname) ==
    LET rejection == SdkValidate(a.schedule_type, a.schedule_value)
    IN IF rejection # <<>>
       THEN Returns(rejection, TRUE, {})
       ELSE Returns(<<"Task scheduled (", fname, "): ", a.schedule_type, " - ",
                      a.schedule_value>>, FALSE,
                    WriteTo(TASKS_DIR, SdkScheduleData(c, a, now)))

\* lines 208-276: pause_task, resume_task, cancel_task
TaskControlData(kind, c, a, now) ==
    [type |-> kind, taskId |-> a.task_id, groupFolder |-> c.groupFolder,
     isMain |-> c.isMain, timestamp |-> IsoNow(now)]

SdkPauseTask(c, a, now, fname) ==
    Returns(<<"Task ", a.task_id, " pause requested.">>, FALSE,
            WriteTo(TASKS_DIR, TaskControlData("pause_task", c, a, now)))

SdkResumeTask(c, a, now, fname) ==
    Returns(<<"Task ", a.task_id, " resume requested.">>, FALSE,
            WriteTo(TASKS_DIR, TaskControlData("resume_task", c, a, now)))

SdkCancelTask(c, a, now, fname) ==
    Returns(<<"Task ", a.task_id, " cancellation requested.">>, FALSE,
            WriteTo(TASKS_DIR, TaskControlData("cancel_task", c, a, now)))

OnlyMainText == <<"Only the main group can register new groups.">>

RegisterData(a, now) ==
    [type |-> "register_group", jid |-> a.jid, name |-> a.name, folder |-> a.folder,
     trigger |-> a.trigger, timestamp |-> IsoNow(now)]

RegisteredText(a) ==
    <<"Group \"", a.name, "\" registered. It will start receiving messages immediately.">>

\* the mutant of SdkRegisterGroup: the privilege gate is missing
SdkRegisterGroup_Ungated(c, a, now, fname) ==
    Returns(RegisteredText(a), FALSE, WriteTo(TASKS_DIR, RegisterData(a, now)))

\* lines 291-316
SdkRegisterGroup(c, a, now, fname) ==
    IF ~c.isMain
    THEN Returns(OnlyMainText, TRUE, {})
    ELSE Returns(RegisteredText(a), FALSE, WriteTo(TASKS_DIR, RegisterData(a, now)))

\* ---- getIpcToolsForOpenAI

\* lines 352-356
OaSendMessage(c, a, now, fname) ==
    Returns(<<"Message queued for delivery (", fname, ")">>, FALSE,
            WriteTo(MESSAGES_DIR,
                    [type |-> "message", chatJid |-> c.chatJid, text |-> a.text,
                     groupFolder |-> c.groupFolder, timestamp |-> IsoNow(now)]))

\* line 379: (args.schedule_type as string) || 'cron'
OaScheduleType(a) == IF a.schedule_type = None THEN "cron" ELSE a.schedule_type

\* line 380: (args.schedule_value as string) || ''
OaScheduleValue(a) ==
    IF a.schedule_value = Missing THEN EmptyString ELSE a.schedule_value

\* lines 381-393: the rejection text, or <<>> when the value passes
OaValidate(kind, v) ==
    CASE kind = "cron" /\ ~CronParses(v) ->
            <<"Invalid cron: \"", v, "\". Use format like \"0 9 * * *\" or \"*/5 * * * *\".">>
      [] kind = "interval" /\ ~IntervalParses(v) ->
            <<"Invalid interval: \"", v, "\". Must be positive milliseconds.">>
      [] kind = "once" /\ ~DateParses(v) ->
            <<"Invalid timestamp: \"", v, "\". Use ISO 8601.">>
      [] OTHER -> <<>>

\* the mutant of OaTargetGroup: the target argument is honoured for every
\* caller
OaTargetGroup_Unchecked(c, a) ==
    IF a.target_group # None THEN a.target_group ELSE c.groupFolder

\* line 394
OaTargetGroup(c, a) ==
    IF c.isMain /\ a.target_group # None THEN a.target_group ELSE c.groupFolder

\* lines 395-405
OaScheduleData(c, a, now) ==
    [type |-> "schedule_task", prompt |-> a.prompt,
     schedule_type |-> OaScheduleType(a), schedule_value |-> OaScheduleValue(a),
     context_mode |-> IF a.context_mode = None THEN "group" ELSE a.context_mode,
     groupFolder |-> OaTargetGroup(c, a), chatJid |-> c.chatJid,
     createdBy |-> c.groupFolder, timestamp |-> IsoNow(now)]

\* lines 378-408
OaScheduleTask(c, a, now, fname) ==
    LET rejection == OaValidate(OaScheduleType(a), OaScheduleValue(a))
    IN IF rejection # <<>>
       THEN Returns(rejection, FALSE, {})
       ELSE Returns(<<"Task scheduled (", fname, "): ", OaScheduleType(a), " - ",
                      OaScheduleValue(a)>>, FALSE,
                    WriteTo(TASKS_DIR, OaScheduleData(c, a, now)))

\* lines 444-447, 459-462, 474-477
OaPauseTask(c, a, now, fname) ==
    Returns(<<"Task ", a.task_id, " pause requested.">>, FALSE,
            WriteTo(TASKS_DIR, TaskControlData("pause_task", c, a, now)))

OaResumeTask(c, a, now, fname) ==
    Returns(<<"Task ", a.task_id, " resume requested.">>, FALSE,
            WriteTo(TASKS_DIR, TaskControlData("resume_task", c, a, now)))

OaCancelTask(c, a, now, fname) ==
    Returns(<<"Task ", a.task_id, " cancellation requested.">>, FALSE,
            WriteTo(TASKS_DIR, TaskControlData("cancel_task", c, a, now)))

\* lines 498-509
OaRegisterGroup(c, a, now, fname) ==
    IF ~c.isMain
    THEN Returns(OnlyMainText, FALSE, {})
    ELSE Returns(RegisteredText(a), FALSE, WriteTo(TASKS_DIR, RegisterData(a, now)))

\* ---- the tool calls

NoCall ==
    [server |-> None, tool |-> None, text |-> <<>>, isError |-> FALSE,
     threw |-> FALSE, wrote |-> {}]

\* writeIpcFile as a whole, when it returns: the file is published under its
\* final name, replacing an entry of that name
Publish(files, dir, fname, data) ==
    {f \in files : ~(f.dir = dir /\ f.name = fname)}
        \cup {[dir |-> dir, name |-> fname, data |-> data]}

InitIpc ==
    /\ clock \in 0..MaxClock
    /\ WriterIdle
    /\ ctx \in Contexts
    /\ callArgs \in ArgRecords
    /\ ipcFiles = {}
    /\ lastCall = NoCall
    /\ ipcCalls = 0
    /\ ListIdle
    /\ ToolsIdle
    /\ LoopIdle
    /\ SessionsIdle
    /\ WebIdle

\* the outcomes of the file system for one writeIpcFile call
DiskOutcomes == {"ok", "fails"}

\* one tool call: the handler runs to its end and returns out, or throws out
\* of writeIpcFile (the file system refuses the staging write or the rename)
Invoke(server, tool, fname, disk, out) ==
    /\ ipcCalls' = ipcCalls + 1
    /\ disk = "fails" => out.writes # {}
    /\ IF disk = "fails"
       THEN /\ ipcFiles' = ipcFiles
            /\ lastCall' = [server |-> server, tool |-> tool, text |-> <<>>,
                            isError |-> FALSE, threw |-> TRUE, wrote |-> {}]
       ELSE /\ ipcFiles' =
                 IF out.writes = {} THEN ipcFiles
                 ELSE LET w == CHOOSE w \in out.writes : TRUE
                      IN Publish(ipcFiles, w.dir, fname, w.data)
            /\ lastCall' = [server |-> server, tool |-> tool, text |-> out.text,
                            isError |-> out.isError, threw |-> FALSE,
                            wrote |-> {[dir |-> w.dir, name |-> fname] : w \in out.writes}]
    /\ UNCHANGED <<ctx, callArgs, clock, notIpc>>

SdkSendMessageCall ==
    /\ ipcCalls < MaxIpcCalls
    /\ \E rnd \in RandomSuffixes, disk \in DiskOutcomes :
           Invoke("sdk", "send_message", FileName(clock, rnd), disk,
                      SdkSendMessage(ctx, callArgs, clock, FileName(clock, rnd)))

\* the SDK checks the arguments against the zod schema of lines 87-93 first:
\* schedule_type is one of the enum, schedule_value is a string
SdkScheduleTaskCall ==
    /\ ipcCalls < MaxIpcCalls
    /\ callArgs.schedule_type \in ScheduleKinds
    /\ callArgs.schedule_value # Missing
    /\ \E rnd \in RandomSuffixes, disk \in DiskOutcomes :
           Invoke("sdk", "schedule_task", FileName(clock, rnd), disk,
                  SdkScheduleTask(ctx, callArgs, clock, FileName(clock, rnd)))

SdkPauseTaskCall ==
    /\ ipcCalls < MaxIpcCalls
    /\ \E rnd \in RandomSuffixes, disk \in DiskOutcomes :
           Invoke("sdk", "pause_task", FileName(clock, rnd), disk,
                      SdkPauseTask(ctx, callArgs, clock, FileName(clock, rnd)))

SdkResumeTaskCall ==
    /\ ipcCalls < MaxIpcCalls
    /\ \E rnd \in RandomSuffixes, disk \in DiskOutcomes :
           Invoke("sdk", "resume_task", FileName(clock, rnd), disk,
                      SdkResumeTask(ctx, callArgs, clock, FileName(clock, rnd)))

SdkCancelTaskCall ==
    /\ ipcCalls < MaxIpcCalls
    /\ \E rnd \in RandomSuffixes, disk \in DiskOutcomes :
           Invoke("sdk", "cancel_task", FileName(clock, rnd), disk,
                      SdkCancelTask(ctx, callArgs, clock, FileName(clock, rnd)))

SdkRegisterGroupCall ==
    /\ ipcCalls < MaxIpcCalls
    /\ \E rnd \in RandomSuffixes, disk \in DiskOutcomes :
           Invoke("sdk", "register_group", FileName(clock, rnd), disk,
                      SdkRegisterGroup(ctx, callArgs, clock, FileName(clock, rnd)))

OaSendMessageCall ==
    /\ ipcCalls < MaxIpcCalls
    /\ \E rnd \in RandomSuffixes, disk \in DiskOutcomes :
           Invoke("openai", "send_message", FileName(clock, rnd), disk,
                      OaSendMessage(ctx, callArgs, clock, FileName(clock, rnd)))

OaScheduleTaskCall ==
    /\ ipcCalls < MaxIpcCalls
    /\ \E rnd \in RandomSuffixes, disk \in DiskOutcomes :
           Invoke("openai", "schedule_task", FileName(clock, rnd), disk,
                      OaScheduleTask(ctx, callArgs, clock, FileName(clock, rnd)))

OaPauseTaskCall ==
    /\ ipcCalls < MaxIpcCalls
    /\ \E rnd \in RandomSuffixes, disk \in DiskOutcomes :
           Invoke("openai", "pause_task", FileName(clock, rnd), disk,
                      OaPauseTask(ctx, callArgs, clock, FileName(clock, rnd)))

OaResumeTaskCall ==
    /\ ipcCalls < MaxIpcCalls
    /\ \E rnd \in RandomSuffixes, disk \in DiskOutcomes :
           Invoke("openai", "resume_task", FileName(clock, rnd), disk,
                      OaResumeTask(ctx, callArgs, clock, FileName(clock, rnd)))

OaCancelTaskCall ==
    /\ ipcCalls < MaxIpcCalls
    /\ \E rnd \in RandomSuffixes, disk \in DiskOutcomes :
           Invoke("openai", "cancel_task", FileName(clock, rnd), disk,
                      OaCancelTask(ctx, callArgs, clock, FileName(clock, rnd)))

OaRegisterGroupCall ==
    /\ ipcCalls < MaxIpcCalls
    /\ \E rnd \in RandomSuffixes, disk \in DiskOutcomes :
           Invoke("openai", "register_group", FileName(clock, rnd), disk,
                      OaRegisterGroup(ctx, callArgs, clock, FileName(clock, rnd)))

NextIpc ==
    \/ SdkSendMessageCall
    \/ SdkScheduleTaskCall
    \/ SdkPauseTaskCall
    \/ SdkResumeTaskCall
    \/ SdkCancelTaskCall
    \/ SdkRegisterGroupCall
    \/ OaSendMessageCall
    \/ OaScheduleTaskCall
    \/ OaPauseTaskCall
    \/ OaResumeTaskCall
    \/ OaCancelTaskCall
    \/ OaRegisterGroupCall

SpecIpc == InitIpc /\ [][NextIpc]_vars

(***************************************************************************)
(* list_tasks (ipc-mcp), over two snapshots of current_tasks.json           *)
(***************************************************************************)

\* entries of one snapshot
MaxTasks == 2

\* t.prompt.slice(0, 50)
PromptChars == 50

ShortPrompt == <<"w", "a", "t", "e", "r">>
LongPrompt == [i \in 1..(PromptChars + 1) |-> IF i <= PromptChars THEN "x" ELSE "y"]

\* the entries the host writes into the snapshot
TaskEntries ==
    {[id |-> "t1", groupFolder |-> "family-chat", prompt |-> ShortPrompt,
      schedule_type |-> "cron", schedule_value |-> Cron5, status |-> "active",
      next_run |-> "2026-02-01T09:00:00.000Z"],
     [id |-> "t2", groupFolder |-> "family-chat", prompt |-> LongPrompt,
      schedule_type |-> "interval", schedule_value |-> Ms300000, status |-> "paused",
      next_run |-> None],
     [id |-> "t3", groupFolder |-> OtherFolder, prompt |-> ShortPrompt,
      schedule_type |-> "once", schedule_value |-> LocalStamp, status |-> "active",
      next_run |-> "2026-02-01T15:30:00.000Z"],
     [id |-> "t4", groupFolder |-> "main", prompt |-> LongPrompt,
      schedule_type |-> "cron", schedule_value |-> Cron5, status |-> "active",
      next_run |-> None]}

TaskLists == UNION {[1..n -> TaskEntries] : n \in 0..MaxTasks}

\* current_tasks.json: absent, not JSON, or the array the host wrote
Snapshots ==
    {[kind |-> "absent", tasks |-> <<>>], [kind |-> "garbage", tasks |-> <<>>]}
        \cup {[kind |-> "array", tasks |-> ts] : ts \in TaskLists}

\* the mutant of VisibleTasks: every caller sees every entry
VisibleTasks_All(c, allTasks) == allTasks

\* lines 168-170, 424: isMain ? allTasks : allTasks.filter(...)
RECURSIVE VisibleTasks(_, _)
VisibleTasks(c, allTasks) ==
    IF c.isMain \/ allTasks = <<>> THEN allTasks
    ELSE (IF Head(allTasks).groupFolder = c.groupFolder THEN <<Head(allTasks)>> ELSE <<>>)
            \o VisibleTasks(c, Tail(allTasks))

\* lines 181-182, 428: one line of the listing
FormatTask(t) ==
    <<"- [", t.id, "] ">>
        \o SubSeq(t.prompt, 1, IF Len(t.prompt) < PromptChars THEN Len(t.prompt)
                               ELSE PromptChars)
        \o <<"... (", t.schedule_type, ": ">> \o t.schedule_value
        \o <<") - ", t.status, ", next: ", IF t.next_run = None THEN "N/A" ELSE t.next_run>>

\* tasks.map(...).join('\n')
RECURSIVE FormatTasks(_)
FormatTasks(tasks) ==
    IF tasks = <<>> THEN <<>>
    ELSE IF Len(tasks) = 1 THEN FormatTask(Head(tasks))
    ELSE FormatTask(Head(tasks)) \o <<"\n">> \o FormatTasks(Tail(tasks))

NoTasksText == <<"No scheduled tasks found.">>

\* the mutant of ListTasks: an absent snapshot file is reported as an error
ListTasks_AbsentIsError(c, snapshot) ==
    CASE snapshot.kind \in {"absent", "garbage"} ->
            <<"Error reading tasks: ", "ENOENT: no such file or directory">>
      [] OTHER ->
            IF Len(VisibleTasks(c, snapshot.tasks)) = 0 THEN NoTasksText
            ELSE <<"Scheduled tasks:\n">> \o FormatTasks(VisibleTasks(c, snapshot.tasks))

\* lines 153-198 and 420-431: the text list_tasks returns
ListTasks(c, snapshot) ==
    CASE snapshot.kind = "absent" -> NoTasksText
      [] snapshot.kind = "garbage" ->
            <<"Error reading tasks: ", "Unexpected token in JSON">>
      [] OTHER ->
            LET tasks == VisibleTasks(c, snapshot.tasks)
            IN IF Len(tasks) = 0 THEN NoTasksText
               ELSE <<"Scheduled tasks:\n">> \o FormatTasks(tasks)

NoOutput == [server |-> None, text |-> <<>>]

ListServers == {"sdk", "openai"}

InitList ==
    /\ clock = 0
    /\ WriterIdle
    /\ ToolsIdle
    /\ LoopIdle
    /\ SessionsIdle
    /\ WebIdle
    /\ ctx \in Contexts
    /\ callArgs = None
    /\ ipcFiles = {}
    /\ lastCall = None
    /\ ipcCalls = 0
    /\ snapA \in Snapshots
    /\ snapB \in Snapshots
    /\ outA = NoOutput
    /\ outB = NoOutput

\* list_tasks is called while the snapshot file is snapA
ListTasksOverA ==
    /\ outA = NoOutput
    /\ \E server \in ListServers :
            outA' = [server |-> server, text |-> ListTasks(ctx, snapA)]
    /\ UNCHANGED <<ctx, snapA, snapB, outB, notList>>

\* the mutant of ListTasksOverB: the call removes the snapshot file it has read
ListTasksOverB_Consuming ==
    /\ outB = NoOutput
    /\ \E server \in ListServers :
            outB' = [server |-> server, text |-> ListTasks(ctx, snapB)]
    /\ snapB' = [kind |-> "absent", tasks |-> <<>>]
    /\ UNCHANGED <<ctx, snapA, outA, notList>>

\* list_tasks is called while the snapshot file is snapB
ListTasksOverB ==
    /\ outB = NoOutput
    /\ \E server \in ListServers :
            outB' = [server |-> server, text |-> ListTasks(ctx, snapB)]
    /\ UNCHANGED <<ctx, snapA, snapB, outA, notList>>

NextList ==
    \/ ListTasksOverA
    \/ ListTasksOverB

SpecList == InitList /\ [][NextList]_vars

(***************************************************************************)
(* The built-in file tools (builtin-tools): resolvePath, Read, Write, Edit *)
(***************************************************************************)

\* tool calls of one run
MaxToolCalls == 2

\* a path is the sequence of its tokens: "/" and the pieces of the names
WORKSPACE_GROUP == <<"/", "workspace", "/", "group">>

\* String.prototype.startsWith
StartsWith(s, prefix) ==
    Len(s) >= Len(prefix) /\ SubSeq(s, 1, Len(prefix)) = prefix

\* the segments of a path, split at "/": done are the segments before the
\* current one, cur the tokens of the current one
RECURSIVE SplitPath(_, _, _)
SplitPath(s, done, cur) ==
    IF s = <<>> THEN Append(done, cur)
    ELSE IF Head(s) = "/" THEN SplitPath(Tail(s), Append(done, cur), <<>>)
    ELSE SplitPath(Tail(s), done, Append(cur, Head(s)))

Segments(s) == SplitPath(s, <<>>, <<>>)

\* path normalisation: "" and "." are dropped, ".." removes the segment
\* before it (and stays at the root)
RECURSIVE Normalize(_, _)
Normalize(segs, stack) ==
    IF segs = <<>> THEN stack
    ELSE LET h == Head(segs)
         IN Normalize(Tail(segs),
                      IF h = <<>> \/ h = <<".">> THEN stack
                      ELSE IF h = <<"..">>
                           THEN (IF stack = <<>> THEN stack
                                 ELSE SubSeq(stack, 1, Len(stack) - 1))
                           ELSE Append(stack, h))

RECURSIVE JoinSegments(_)
JoinSegments(segs) ==
    IF segs = <<>> THEN <<>> ELSE <<"/">> \o Head(segs) \o JoinSegments(Tail(segs))

\* path.resolve(base, p) for an absolute base
PathResolve(base, p) ==
    LET full == IF p # <<>> /\ Head(p) = "/" THEN p ELSE base \o <<"/">> \o p
        joined == JoinSegments(Normalize(Segments(full), <<>>))
    IN IF joined = <<>> THEN <<"/">> ELSE joined

\* line 544: resolved.startsWith(WORKSPACE_GROUP)
PathAllowed(resolved) == StartsWith(resolved, WORKSPACE_GROUP)

\* the path arguments a caller passes
NotesArg == <<"notes.txt">>
NewFileArg == <<"sub", "/", "new.txt">>
DottedArg == <<".", "/", "sub", "/", "..", "/", "notes.txt">>
ReenterArg == <<"..", "/", "group", "/", "notes.txt">>
RootArg == <<>>
TraversalArg == <<"..", "/", "..", "/", "etc", "/", "passwd">>
AbsoluteArg == <<"/", "etc", "/", "passwd">>
SiblingArg == <<"..", "/", "group", "2", "/", "secret">>
AbsoluteSiblingArg == <<"/", "workspace", "/", "group", "2", "/", "secret">>
SessionArg == <<".sessions", "/", "s1", ".json">>

PathArgs ==
    {NotesArg, NewFileArg, DottedArg, ReenterArg, RootArg, TraversalArg, AbsoluteArg,
     SiblingArg, AbsoluteSiblingArg, SessionArg}

\* path.resolve(WORKSPACE_GROUP, p), over the path arguments of the model
Resolved == [p \in PathArgs |-> PathResolve(WORKSPACE_GROUP, p)]

\* lines 544-547: the check of the resolved path
CheckedPath(relativePath, resolved) ==
    IF ~PathAllowed(resolved)
    THEN [threw |-> TRUE, path |-> resolved,
          message |-> <<"Path ">> \o relativePath \o <<" resolves outside /workspace/group">>]
    ELSE [threw |-> FALSE, path |-> resolved, message |-> <<>>]

\* resolvePath, lines 542-548
ResolvePath(relativePath) ==
    CheckedPath(relativePath, Resolved[relativePath])

\* files: a text file holds its characters, a session file the document that
\* JSON.stringify wrote
NoDoc == [isArray |-> FALSE, messages |-> <<>>]
Absent == [kind |-> "absent", chars |-> <<>>, doc |-> NoDoc]
Directory == [kind |-> "dir", chars |-> <<>>, doc |-> NoDoc]
TextFile(chars) == [kind |-> "text", chars |-> chars, doc |-> NoDoc]
JsonFile(doc) == [kind |-> "json", chars |-> <<>>, doc |-> doc]

\* the files of the container that the model follows
FsPaths == {Resolved[p] : p \in PathArgs}

NotesText == <<"a", "b", "c", "b">>
PasswdText == <<"root:x:0:0">>
SecretText == <<"k", "e", "y">>

InitialFs ==
    [p \in FsPaths |->
        CASE p = WORKSPACE_GROUP -> Directory
          [] p = Resolved[NotesArg] -> TextFile(NotesText)
          [] p = Resolved[AbsoluteArg] -> TextFile(PasswdText)
          [] p = Resolved[SiblingArg] -> TextFile(SecretText)
          [] OTHER -> Absent]

\* the text fs.readFileSync(p, 'utf-8') returns; the characters of a
\* serialized session are not followed
FileText(file) == IF file.kind = "json" THEN <<"{\"messages\":[...]}">> ELSE file.chars

\* what a tool call does: it returns text or throws message, leaves the files
\* as files, and makes the file system calls io
ToolReturns(text, files, io) ==
    [threw |-> FALSE, text |-> text, fs |-> files, io |-> io]
ToolThrows(message, files) ==
    [threw |-> TRUE, text |-> message, fs |-> files, io |-> {}]

\* String(args.x ?? '')
StringOr(v) == IF v = Missing THEN <<>> ELSE v

ENOENT == <<"Error: ", "ENOENT: no such file or directory">>
EISDIR == <<"Error: ", "EISDIR: illegal operation on a directory">>

\* lines 638-643: fs.readFileSync at the resolved path
ReadFileAt(files, r) ==
    IF r.threw THEN ToolThrows(r.message, files)
    ELSE CASE files[r.path].kind = "absent" ->
                 ToolReturns(ENOENT, files, {[op |-> "read", path |-> r.path]})
           [] files[r.path].kind = "dir" ->
                 ToolReturns(EISDIR, files, {[op |-> "read", path |-> r.path]})
           [] OTHER ->
                 ToolReturns(FileText(files[r.path]), files,
                             {[op |-> "read", path |-> r.path]})

\* Read, lines 637-644
ReadTool(files, args) == ReadFileAt(files, ResolvePath(StringOr(args.path)))

\* lines 663-670: mkdirSync and writeFileSync at the resolved path
WriteFileAt(files, r, args) ==
    IF r.threw THEN ToolThrows(r.message, files)
    ELSE IF files[r.path].kind = "dir"
    THEN ToolReturns(EISDIR, files, {[op |-> "write", path |-> r.path]})
    ELSE ToolReturns(<<"Wrote ">> \o args.path,
                     [files EXCEPT ![r.path] = TextFile(StringOr(args.content))],
                     {[op |-> "write", path |-> r.path]})

\* Write, lines 661-671
WriteTool(files, args) == WriteFileAt(files, ResolvePath(StringOr(args.path)), args)

\* String.prototype.indexOf: the first position where old occurs, 0 for none
IndexOf(content, old) ==
    LET hits == {i \in 1..(Len(content) + 1 - Len(old)) :
                    SubSeq(content, i, i + Len(old) - 1) = old}
    IN IF hits = {} THEN 0 ELSE CHOOSE i \in hits : \A j \in hits : i <= j

\* the replacement patterns of String.prototype.replace: "$$" inserts "$",
\* "$&" inserts the matched text
RECURSIVE Expand(_, _)
Expand(new, matched) ==
    IF new = <<>> THEN <<>>
    ELSE (CASE Head(new) = "$$" -> <<"$">>
            [] Head(new) = "$&" -> matched
            [] OTHER -> <<Head(new)>>) \o Expand(Tail(new), matched)

\* content.replace(oldStr, newStr) with a string pattern: the first occurrence
ReplaceAt(content, i, old, new) ==
    IF i = 0 THEN content
    ELSE SubSeq(content, 1, i - 1) \o Expand(new, old)
            \o SubSeq(content, i + Len(old), Len(content))

ReplaceFirst(content, old, new) == ReplaceAt(content, IndexOf(content, old), old, new)

\* lines 695-703: readFileSync, includes, replace, writeFileSync at the
\* resolved path
EditFileAt(files, r, args, oldStr, newStr) ==
    IF r.threw THEN ToolThrows(r.message, files)
    ELSE CASE files[r.path].kind = "absent" ->
                 ToolReturns(ENOENT, files, {[op |-> "read", path |-> r.path]})
           [] files[r.path].kind = "dir" ->
                 ToolReturns(EISDIR, files, {[op |-> "read", path |-> r.path]})
           [] IndexOf(FileText(files[r.path]), oldStr) = 0 ->
                 ToolReturns(<<"Error: old_string not found in file">>, files,
                             {[op |-> "read", path |-> r.path]})
           [] OTHER ->
                 ToolReturns(<<"Edited ">> \o args.path,
                             [files EXCEPT ![r.path] =
                                 TextFile(ReplaceFirst(FileText(files[r.path]),
                                                       oldStr, newStr))],
                             {[op |-> "read", path |-> r.path],
                              [op |-> "write", path |-> r.path]})

\* Edit, lines 692-704
EditTool(files, args) ==
    EditFileAt(files, ResolvePath(StringOr(args.path)), args,
           StringOr(args.old_string), StringOr(args.new_string))

\* the arguments a caller passes to the file tools
NoFileArgs ==
    [path |-> Missing, content |-> Missing, old_string |-> Missing, new_string |-> Missing,
     command |-> Missing, text |-> Missing]

FileArgs ==
    {[NoFileArgs EXCEPT !.path = p] : p \in PathArgs \cup {Missing}}

WriteArgs ==
    {[a EXCEPT !.content = c] : a \in FileArgs, c \in {<<"x">>, Missing}}

EditArgs ==
    {[a EXCEPT !.old_string = e.old, !.new_string = e.new] :
        a \in FileArgs,
        e \in {[old |-> <<"b">>, new |-> <<"X", "Y">>],
               [old |-> <<"k", "e">>, new |-> <<>>],
               [old |-> <<"z">>, new |-> <<"X">>],
               [old |-> <<"c">>, new |-> <<"$&", "X">>]}}

NoTool ==
    [tool |-> None, args |-> NoFileArgs, threw |-> FALSE, text |-> <<>>, io |-> {}]

InitTools ==
    /\ clock = 0
    /\ WriterIdle
    /\ IpcIdle
    /\ ListIdle
    /\ LoopIdle
    /\ SessionsIdle
    /\ WebIdle
    /\ fs = InitialFs
    /\ ioLog = {}
    /\ lastTool = NoTool
    /\ toolCalls = 0

\* one tool call by the custom provider: the executor runs to its end
Call(tool, args, out) ==
    /\ toolCalls' = toolCalls + 1
    /\ fs' = out.fs
    /\ ioLog' = ioLog \cup out.io
    /\ lastTool' = [tool |-> tool, args |-> args, threw |-> out.threw, text |-> out.text,
                    io |-> out.io]
    /\ UNCHANGED notTools

ReadCall ==
    /\ toolCalls < MaxToolCalls
    /\ \E a \in FileArgs : Call("Read", a, ReadTool(fs, a))

WriteCall ==
    /\ toolCalls < MaxToolCalls
    /\ \E a \in WriteArgs : Call("Write", a, WriteTool(fs, a))

EditCall ==
    /\ toolCalls < MaxToolCalls
    /\ \E a \in EditArgs : Call("Edit", a, EditTool(fs, a))

NextTools ==
    \/ ReadCall
    \/ WriteCall
    \/ EditCall

SpecTools == InitTools /\ [][NextTools]_vars

(***************************************************************************)
(* Glob and Grep: walkDir, simpleGlob and the two executors (builtin-tools) *)
(***************************************************************************)

\* the files that may exist below the sandbox root, by their root-relative
\* path, in the order in which walkDir meets them (readdirSync by name,
\* directories entered where they stand)
SearchOrder ==
    <<<<"a", ".", "b">>,
      <<"a", "a", "b">>,
      <<"d", "/", "a", ".", "b">>,
      <<"d", "/", "d", "/", "a", ".", "b">>>>

\* path.join(dir, e) below the sandbox root
UnderRoot(rel) == WORKSPACE_GROUP \o <<"/">> \o rel

SearchPaths == {UnderRoot(SearchOrder[i]) : i \in DOMAIN SearchOrder}

\* path.relative(WORKSPACE_GROUP, f) of a file below the root
PathRelative(base, f) == SubSeq(f, Len(base) + 2, Len(f))

\* the contents of the files: "ab", then " a" on a second line; and "bb"
TwoLines == <<"a", "b", "\n", " ", "a">>
OneLine == <<"b", "b">>

\* walkDir(WORKSPACE_GROUP), lines 550-566: the files below the root
RECURSIVE WalkFrom(_, _)
WalkFrom(files, i) ==
    IF i > Len(SearchOrder) THEN <<>>
    ELSE (IF files[UnderRoot(SearchOrder[i])].kind = "absent" THEN <<>>
          ELSE <<UnderRoot(SearchOrder[i])>>) \o WalkFrom(files, i + 1)

WalkDir(files) == WalkFrom(files, 1)

\* String.prototype.trim
RECURSIVE TrimStart(_)
TrimStart(s) == IF s # <<>> /\ Head(s) = " " THEN TrimStart(Tail(s)) ELSE s

RECURSIVE TrimEnd(_)
TrimEnd(s) ==
    IF s # <<>> /\ s[Len(s)] = " " THEN TrimEnd(SubSeq(s, 1, Len(s) - 1)) ELSE s

Trim(s) == TrimEnd(TrimStart(s))

\* s.split(sep): the pieces between the separators
RECURSIVE SplitAt(_, _, _, _)
SplitAt(s, sep, done, cur) ==
    IF s = <<>> THEN Append(done, cur)
    ELSE IF Head(s) = sep THEN SplitAt(Tail(s), sep, Append(done, cur), <<>>)
    ELSE SplitAt(Tail(s), sep, done, Append(cur, Head(s)))

Split(s, sep) == SplitAt(s, sep, <<>>, <<>>)

\* pieces.join(sep)
RECURSIVE Join(_, _)
Join(pieces, sep) ==
    IF pieces = <<>> THEN <<>>
    ELSE IF Len(pieces) = 1 THEN pieces[1]
    ELSE pieces[1] \o sep \o Join(Tail(pieces), sep)

\* the three replacements of line 574, in the order of the code; the text
\* [^/]* is kept as one element of the expression
\* p.replace(/\*\*/g, '.*')
RECURSIVE ReplaceStarStar(_)
ReplaceStarStar(p) ==
    IF Len(p) >= 2 /\ p[1] = "*" /\ p[2] = "*"
    THEN <<".", "*">> \o ReplaceStarStar(SubSeq(p, 3, Len(p)))
    ELSE IF p = <<>> THEN <<>>
    ELSE <<Head(p)>> \o ReplaceStarStar(Tail(p))

\* .replace(/\*/g, '[^/]*')
ReplaceStar(p) == [i \in 1..Len(p) |-> IF p[i] = "*" THEN "[^/]*" ELSE p[i]]

\* .replace(/\?/g, '.')
ReplaceQuestion(p) == [i \in 1..Len(p) |-> IF p[i] = "?" THEN "." ELSE p[i]]

SegmentRegex(p) == ReplaceQuestion(ReplaceStar(ReplaceStarStar(p)))

\* normalized.split('/').map(...).join('/'), between ^ and $
RegexOfGlob(normalized) ==
    Join([i \in 1..Len(Split(normalized, "/")) |->
              SegmentRegex(Split(normalized, "/")[i])], <<"/">>)

\* new RegExp(reStr) returns: of the characters of the model's patterns only
\* an opening parenthesis makes the expression invalid
Compiles(re) == \A i \in 1..Len(re) : re[i] # "("

\* re.test(s) for an expression between ^ and $: a full match; the dot
\* matches any character, a letter matches itself
RECURSIVE RegexMatch(_, _)
RegexMatch(re, s) ==
    IF re = <<>> THEN s = <<>>
    ELSE IF Head(re) = "[^/]*"
    THEN \/ RegexMatch(Tail(re), s)
         \/ s # <<>> /\ Head(s) # "/" /\ RegexMatch(re, Tail(s))
    ELSE /\ s # <<>>
         /\ Head(re) = "." \/ Head(re) = Head(s)
         /\ RegexMatch(Tail(re), Tail(s))

\* allFiles.filter(...), lines 581-584
RECURSIVE FilterFiles(_, _)
FilterFiles(all, re) ==
    IF all = <<>> THEN <<>>
    ELSE (IF RegexMatch(re, PathRelative(WORKSPACE_GROUP, Head(all)))
          THEN <<Head(all)>> ELSE <<>>) \o FilterFiles(Tail(all), re)

\* line 570: pattern.trim() || '*'
Normalized(pattern) == IF Trim(pattern) = <<>> THEN <<"*">> ELSE Trim(pattern)

EndsWith(s, suffix) ==
    Len(s) >= Len(suffix) /\ SubSeq(s, Len(s) - Len(suffix) + 1, Len(s)) = suffix

\* simpleGlob, lines 568-585
SimpleGlobOver(all, normalized) ==
    IF normalized = <<"*", "*">> \/ EndsWith(normalized, <<"/", "*", "*">>) THEN all
    ELSE IF ~Compiles(RegexOfGlob(normalized)) THEN all
    ELSE FilterFiles(all, RegexOfGlob(normalized))

SimpleGlob(pattern, files) == SimpleGlobOver(WalkDir(files), Normalized(pattern))

\* what Glob and Grep return: the text, and the entries the text is made of
SearchReturns(text, found, io) ==
    [threw |-> FALSE, text |-> text, found |-> found, io |-> io]

NoMatchesText == <<"(no matches)">>

Listed == {[op |-> "list", path |-> WORKSPACE_GROUP]}

\* files.map((f) => path.relative(WORKSPACE_GROUP, f))
Relative(found) == [i \in 1..Len(found) |-> PathRelative(WORKSPACE_GROUP, found[i])]

\* lines 726-727
GlobFound(relative) ==
    SearchReturns(IF relative = <<>> THEN NoMatchesText ELSE Join(relative, <<"\n">>),
                  relative, Listed)

\* Glob, lines 722-731: String(args.pattern ?? '*')
GlobTool(files, args) ==
    GlobFound(Relative(SimpleGlob(IF args.pattern = Missing THEN <<"*">> ELSE args.pattern,
                                  files)))

\* the first position from which old occurs in content, not before from; 0
\* for none
IndexFrom(content, old, from) ==
    IF \E i \in from..(Len(content) + 1 - Len(old)) :
            SubSeq(content, i, i + Len(old) - 1) = old
    THEN CHOOSE i \in from..(Len(content) + 1 - Len(old)) :
            /\ SubSeq(content, i, i + Len(old) - 1) = old
            /\ \A j \in from..(i - 1) : SubSeq(content, j, j + Len(old) - 1) # old
    ELSE 0

\* re.test(line) of an expression with the g flag that consists of letters
\* only: the search starts at re.lastIndex; a match leaves lastIndex behind
\* the match, a failure sets it to 0
TestAt(line, i, re) ==
    IF i = 0 THEN [hit |-> FALSE, lastIndex |-> 0]
    ELSE [hit |-> TRUE, lastIndex |-> i - 1 + Len(re)]

RegexTest(re, line, lastIndex) ==
    IF lastIndex > Len(line) THEN [hit |-> FALSE, lastIndex |-> 0]
    ELSE TestAt(line, IndexFrom(line, re, lastIndex + 1), re)

\* i + 1 in `${rel}:${i + 1}: ...`
Decimal(n) == <<"0", "1", "2", "3", "4", "5", "6", "7", "8", "9">>[n + 1]

\* line 762: the entry pushed for line i of the file
GrepEntry(rel, i, line) == [file |-> rel, line |-> i, text |-> Trim(line)]

FormatEntry(e) == e.file \o <<":", Decimal(e.line), ":", " ">> \o e.text

Scanned(found, lastIndex) == [found |-> found, lastIndex |-> lastIndex]

\* lines 761-763: the lines of one file, from line i on; the expression
\* keeps its lastIndex from one test to the next
RECURSIVE GrepLines(_, _, _, _, _)
RECURSIVE AfterLine(_, _, _, _, _)
AfterLine(rel, lines, i, re, t) ==
    Scanned((IF t.hit THEN <<GrepEntry(rel, i, lines[i])>> ELSE <<>>)
                \o GrepLines(rel, lines, i + 1, re, t.lastIndex).found,
            GrepLines(rel, lines, i + 1, re, t.lastIndex).lastIndex)

GrepLines(rel, lines, i, re, lastIndex) ==
    IF i > Len(lines) THEN Scanned(<<>>, lastIndex)
    ELSE AfterLine(rel, lines, i, re, RegexTest(re, lines[i], lastIndex))

\* lines 756-767: the files in the order of the enumeration
RECURSIVE GrepFiles(_, _, _, _)
RECURSIVE AfterFile(_, _, _, _)
AfterFile(list, files, re, one) ==
    Scanned(one.found \o GrepFiles(Tail(list), files, re, one.lastIndex).found,
            GrepFiles(Tail(list), files, re, one.lastIndex).lastIndex)

GrepFiles(list, files, re, lastIndex) ==
    IF list = <<>> THEN Scanned(<<>>, lastIndex)
    ELSE AfterFile(list, files, re,
                   GrepLines(PathRelative(WORKSPACE_GROUP, Head(list)),
                             Split(files[Head(list)].chars, "\n"), 1, re, lastIndex))

\* line 768
GrepFound(found, list) ==
    SearchReturns(IF found = <<>> THEN NoMatchesText
                  ELSE Join([i \in 1..Len(found) |-> FormatEntry(found[i])], <<"\n">>),
                  found,
                  Listed \cup {[op |-> "read", path |-> list[i]] : i \in 1..Len(list)})

GrepOver(list, files, re) == GrepFound(GrepFiles(list, files, re, 0).found, list)

\* Grep, lines 749-772: an expression that does not compile is reported by
\* the outer catch
GrepTool(files, args) ==
    IF ~Compiles(StringOr(args.pattern))
    THEN SearchReturns(<<"Error: ", "Invalid regular expression">>, <<>>, {})
    ELSE GrepOver(IF args.path = Missing \/ args.path = <<"*", "*">>
                  THEN SimpleGlob(<<"*", "*", "/", "*">>, files)
                  ELSE SimpleGlob(args.path, files),
                  files, StringOr(args.pattern))

\* the arguments a caller passes to Glob and Grep
GlobPatterns ==
    {<<"*">>, <<"*", "*">>, <<"*", "*", "/", "*">>, <<"*", ".", "b">>,
     <<"d", "/", "*", "*">>, <<"d", "/", "*">>, <<"a", "?", "b">>, <<" ">>, <<"(">>}

GlobArgs == {[pattern |-> p, path |-> Missing] : p \in GlobPatterns \cup {Missing}}

GrepArgs ==
    {[pattern |-> p, path |-> q] :
        p \in {<<"a">>, <<"b">>, <<"(">>},
        q \in {Missing, <<"*">>, <<"d", "/", "*", "*">>}}

NoSearch ==
    [tool |-> None, args |-> [pattern |-> Missing, path |-> Missing], threw |-> FALSE,
     text |-> <<>>, found |-> <<>>, io |-> {}]

InitSearch ==
    /\ clock = 0
    /\ WriterIdle
    /\ IpcIdle
    /\ ListIdle
    /\ LoopIdle
    /\ SessionsIdle
    /\ WebIdle
    /\ fs \in [SearchPaths -> {Absent, TextFile(TwoLines), TextFile(OneLine)}]
    /\ ioLog = {}
    /\ lastTool = NoSearch
    /\ toolCalls = 0

\* one call of Glob or Grep: the executor runs to its end; no file changes
SearchCall(tool, args, out) ==
    /\ toolCalls' = toolCalls + 1
    /\ ioLog' = ioLog \cup out.io
    /\ lastTool' = [tool |-> tool, args |-> args, threw |-> out.threw, text |-> out.text,
                    found |-> out.found, io |-> out.io]
    /\ UNCHANGED <<fs, notTools>>

GlobCall ==
    /\ toolCalls < MaxToolCalls
    /\ \E a \in GlobArgs : SearchCall("Glob", a, GlobTool(fs, a))

GrepCall ==
    /\ toolCalls < MaxToolCalls
    /\ \E a \in GrepArgs : SearchCall("Grep", a, GrepTool(fs, a))

NextSearch ==
    \/ GlobCall
    \/ GrepCall

SpecSearch == InitSearch /\ [][NextSearch]_vars

(***************************************************************************)
(* The session loop: runCustomProvider (custom-provider)                    *)
(***************************************************************************)

\* const maxRounds = 30
maxRounds == 30

\* null as the value of a text
Null == <<"null">>

SESSIONS_DIR == WORKSPACE_GROUP \o <<"/", ".sessions">>

\* path.join(SESSIONS_DIR, `${sessionId}.json`)
SessionPath(id) == SESSIONS_DIR \o <<"/", id, ".json">>

\* the session ids of the model: the one an input supplies and the one
\* randomSessionId() generates, for which no file exists
SessionIds == {"s1", "fresh"}

\* ---- the turns of the history

\* the content of a turn: a string, an array of parts, or null
Str(chars) == [type |-> "string", parts |-> <<chars>>]
Parts(texts) == [type |-> "array", parts |-> texts]
NullContent == [type |-> "null", parts |-> <<>>]

UserTurn(chars) == [role |-> "user", content |-> Str(chars)]
AssistantTurn(content, calls) ==
    [role |-> "assistant", content |-> content, tool_calls |-> calls]
ToolTurn(id, chars) == [role |-> "tool", tool_call_id |-> id, content |-> Str(chars)]

\* parts.map(c => c?.text ?? '').join('')
RECURSIVE JoinParts(_)
JoinParts(texts) ==
    IF texts = <<>> THEN <<>>
    ELSE (IF Head(texts) = Missing THEN <<>> ELSE Head(texts)) \o JoinParts(Tail(texts))

\* lines 209-214
TextOf(content) ==
    CASE content.type = "string" -> content.parts[1]
      [] content.type = "array" -> JoinParts(content.parts)
      [] OTHER -> <<>>

\* line 215: text || null
TextOrNull(text) == IF text = <<>> THEN Null ELSE text

\* ---- the session file

\* JSON.stringify omits a field that holds undefined
StringifyTurn(t) ==
    IF t.role = "tool" /\ t.tool_call_id = None
    THEN [role |-> t.role, content |-> t.content]
    ELSE t

\* JSON.stringify({ messages }, null, 0)
StringifySession(msgs) ==
    [isArray |-> TRUE, messages |-> [i \in 1..Len(msgs) |-> StringifyTurn(msgs[i])]]

\* loadSession, lines 82-92: null unless the file parses and holds an array
LoadSession(files, id) ==
    IF files[SessionPath(id)].kind = "json" /\ files[SessionPath(id)].doc.isArray
    THEN [isNull |-> FALSE, messages |-> files[SessionPath(id)].doc.messages]
    ELSE [isNull |-> TRUE, messages |-> <<>>]

\* ---- the tool calls of a response

\* tc.function.arguments: JSON text (given by the value it denotes), text
\* that is not JSON, or no arguments field
ArgsJson(args) == [given |-> TRUE, valid |-> TRUE, args |-> args]
BadJson == [given |-> TRUE, valid |-> FALSE, args |-> NoFileArgs]
NoArguments == [given |-> FALSE, valid |-> FALSE, args |-> NoFileArgs]

\* line 187: tc.function?.arguments ?? '{}'
ArgsStr(tc) == IF tc.arguments.given THEN tc.arguments ELSE ArgsJson(NoFileArgs)

\* JSON.parse(argsStr)
JsonParse(argsStr) ==
    IF argsStr.valid
    THEN [threw |-> FALSE, value |-> argsStr.args, message |-> <<>>]
    ELSE [threw |-> TRUE, value |-> NoFileArgs,
          message |-> <<"Unexpected token in JSON at position 1">>]

\* ipc-mcp line 12, as a path of the container
IPC_DIR == <<"/", "workspace", "/", "ipc">>

\* ipc-mcp line 26: path.join(dir, filename)
IpcFilePath(dir, fname) == IPC_DIR \o <<"/", dir, "/", fname>>

\* the files of the messages directory that the model follows
MessagePaths ==
    {IpcFilePath(MESSAGES_DIR, FileName(now, rnd)) : now \in 0..MaxClock, rnd \in RandomSuffixes}

\* what a tool call takes from its surroundings: the context of the
\* invocation, Date.now() and the digits Math.random() gives
Env(c, now, rnd) == [ctx |-> c, now |-> now, rnd |-> rnd]

\* writeIpcFile as a whole, inside the loop's file system: the payload is
\* published under its final name, replacing a file of that name
WriteIpcFileAt(files, path, data, text) ==
    ToolReturns(text, [files EXCEPT ![path] = JsonFile(data)],
                {[op |-> "publish", path |-> path, data |-> data]})

\* an executor of getIpcToolsForOpenAI: its writeIpcFile call, if it makes one
RunIpcTool(files, fname, out) ==
    IF out.writes = {} THEN ToolReturns(out.text, files, {})
    ELSE WriteIpcFileAt(files, IpcFilePath((CHOOSE w \in out.writes : TRUE).dir, fname),
                        (CHOOSE w \in out.writes : TRUE).data, out.text)

\* mcp__nanoclaw__send_message, ipc-mcp lines 352-356
SendMessageTool(files, args, env) ==
    RunIpcTool(files, FileName(env.now, env.rnd),
               OaSendMessage(env.ctx, args, env.now, FileName(env.now, env.rnd)))

\* the commands the model passes to Bash
BlankCmd == <<" ">>
EchoCmd == <<"echo hi">>
RemoveMessagesCmd == <<"rm -rf /workspace/ipc/messages">>

\* Bash, builtin-tools lines 603-621: execSync(command) in the container;
\* the shell is not confined to /workspace/group
BashTool(files, args) ==
    CASE StringOr(args.command) \in {<<>>, BlankCmd} ->
            ToolReturns(<<"Error: empty command">>, files, {})
      [] StringOr(args.command) = RemoveMessagesCmd ->
            ToolReturns(<<"(no output)">>,
                        [p \in DOMAIN files |->
                            IF p \in MessagePaths THEN Absent ELSE files[p]],
                        {[op |-> "exec", path |-> IPC_DIR \o <<"/", MESSAGES_DIR>>]})
      [] OTHER ->
            ToolReturns(<<"hi\n">>, files, {[op |-> "exec", path |-> WORKSPACE_GROUP]})

SendMessageName == "mcp__nanoclaw__send_message"

\* ---- the tool catalog

\* an executor: its name, the definition advertised to the endpoint, and the
\* module that supplies it
ToolExecutor(source, name) ==
    [name |-> name, def |-> [type |-> "function", function |-> [name |-> name]],
     source |-> source]

\* getIpcToolsForOpenAI(ctx), in the order of the array
IpcTools ==
    <<ToolExecutor("ipc", SendMessageName),
      ToolExecutor("ipc", "mcp__nanoclaw__schedule_task"),
      ToolExecutor("ipc", "mcp__nanoclaw__list_tasks"),
      ToolExecutor("ipc", "mcp__nanoclaw__pause_task"),
      ToolExecutor("ipc", "mcp__nanoclaw__resume_task"),
      ToolExecutor("ipc", "mcp__nanoclaw__cancel_task"),
      ToolExecutor("ipc", "mcp__nanoclaw__register_group")>>

\* the mutant of BuiltinTools: the shell tool is registered under the name of
\* an IPC tool
BuiltinTools_Clash ==
    <<ToolExecutor("builtin", SendMessageName),
      ToolExecutor("builtin", "Read"),
      ToolExecutor("builtin", "Write"),
      ToolExecutor("builtin", "Edit"),
      ToolExecutor("builtin", "Glob"),
      ToolExecutor("builtin", "Grep"),
      ToolExecutor("builtin", "WebSearch"),
      ToolExecutor("builtin", "WebFetch")>>

\* getBuiltinTools(), in the order of the array
BuiltinTools ==
    <<ToolExecutor("builtin", "Bash"),
      ToolExecutor("builtin", "Read"),
      ToolExecutor("builtin", "Write"),
      ToolExecutor("builtin", "Edit"),
      ToolExecutor("builtin", "Glob"),
      ToolExecutor("builtin", "Grep"),
      ToolExecutor("builtin", "WebSearch"),
      ToolExecutor("builtin", "WebFetch")>>

\* line 136: [...ipcTools, ...builtinTools]
AllExecutors == IpcTools \o BuiltinTools

\* getOpenAITools, lines 65-74: the definitions advertised with each request
GetOpenAITools(executors) == [i \in 1..Len(executors) |-> executors[i].def]

\* Map.prototype.set
MapSet(m, key, value) == [k \in DOMAIN m \cup {key} |-> IF k = key THEN value ELSE m[k]]

\* getExecutorMap, lines 76-80
RECURSIVE SetEach(_, _)
SetEach(m, executors) ==
    IF executors = <<>> THEN m
    ELSE SetEach(MapSet(m, Head(executors).def.function.name, Head(executors)),
                 Tail(executors))

GetExecutorMap(executors) == SetEach(<<>>, executors)

\* lines 137-138
Tools == GetOpenAITools(AllExecutors)
ExecutorMap == GetExecutorMap(AllExecutors)

\* the executors of the catalog that the model runs
ExecutorNames == {"Read", "Write", "Edit", "Bash", SendMessageName}

\* executor.execute(args)
Execute(name, args, files, env) ==
    CASE name = "Read" -> ReadTool(files, args)
      [] name = "Write" -> WriteTool(files, args)
      [] name = "Edit" -> EditTool(files, args)
      [] name = "Bash" -> BashTool(files, args)
      [] name = SendMessageName -> SendMessageTool(files, args, env)

\* what one tool call leaves: the content of its tool-result turn, the files,
\* the file system calls, whether the executor ran, and a fault that escapes
ToolDone(content, files, io, ran) ==
    [content |-> content, fs |-> files, io |-> io, ran |-> ran, escaped |-> FALSE]
ToolEscapes(message, files, ran) ==
    [content |-> message, fs |-> files, io |-> {}, ran |-> ran, escaped |-> TRUE]

\* lines 193-196: the executor ran, its fault is caught
Caught(out) ==
    IF out.threw THEN ToolDone(<<"Error: ">> \o out.text, out.fs, out.io, TRUE)
    ELSE ToolDone(out.text, out.fs, out.io, TRUE)

\* the executor ran, its fault escapes
Uncaught(out) ==
    IF out.threw THEN ToolEscapes(out.text, out.fs, TRUE)
    ELSE ToolDone(out.text, out.fs, out.io, TRUE)

UnknownToolText(name) == <<"Unknown tool: ", IF name = None THEN "null" ELSE name>>

\* the mutant of Parsed: no try/catch around JSON.parse and the executor
Parsed_Uncaught(tc, parsed, files, env) ==
    IF parsed.threw THEN ToolEscapes(parsed.message, files, FALSE)
    ELSE Uncaught(Execute(tc.name, parsed.value, files, env))

\* lines 191-196: JSON.parse, then the executor, inside try/catch
Parsed(tc, parsed, files, env) ==
    IF parsed.threw THEN ToolDone(<<"Error: ">> \o parsed.message, files, {}, FALSE)
    ELSE CHOOSE done \in {Caught(out) :
                              out \in {Execute(tc.name, parsed.value, files, env)}} : TRUE

\* lines 186-199: one tool call of the response
CallTool(tc, files, env) ==
    IF tc.name \in ExecutorNames
    THEN Parsed(tc, JsonParse(ArgsStr(tc)), files, env)
    ELSE ToolDone(UnknownToolText(tc.name), files, {}, FALSE)

NoTurns ==
    [turns |-> <<>>, fs |-> <<>>, io |-> {}, ran |-> <<>>, escaped |-> FALSE,
     message |-> <<>>]

\* the mutant of Answered: the tool-result turn of a call is appended after
\* the turns of the calls that follow it
Answered_ResultsReversed(tc, one, rest) ==
    [turns |-> rest.turns \o <<ToolTurn(tc.id, one.content)>>,
     fs |-> rest.fs, io |-> one.io \cup rest.io,
     ran |-> (IF one.ran THEN <<tc.id>> ELSE <<>>) \o rest.ran,
     escaped |-> rest.escaped, message |-> rest.message]

\* the tool-result turn of a call, before the turns of the calls after it
Answered(tc, one, rest) ==
    [turns |-> <<ToolTurn(tc.id, one.content)>> \o rest.turns,
     fs |-> rest.fs, io |-> one.io \cup rest.io,
     ran |-> (IF one.ran THEN <<tc.id>> ELSE <<>>) \o rest.ran,
     escaped |-> rest.escaped, message |-> rest.message]

\* lines 185-205: the tool calls of one response, in order; a fault that
\* escapes a call ends the for loop
RECURSIVE RunTools(_, _, _)
RECURSIVE AfterCall(_, _, _, _)
AfterCall(tc, others, one, envs) ==
    IF one.escaped
    THEN [NoTurns EXCEPT !.fs = one.fs, !.ran = IF one.ran THEN <<tc.id>> ELSE <<>>,
                         !.escaped = TRUE, !.message = one.content]
    ELSE CHOOSE run \in {Answered(tc, one, rest) :
                             rest \in {RunTools(others, one.fs, envs)}} : TRUE

\* the call is made once and its outcome handed on (the singleton sets bind
\* the outcome as a value)
RunTools(calls, files, envs) ==
    IF calls = <<>> THEN [NoTurns EXCEPT !.fs = files]
    ELSE CHOOSE run \in {AfterCall(Head(calls), Tail(calls), one, Tail(envs)) :
                             one \in {CallTool(Head(calls), files, Head(envs))}} : TRUE

\* ---- the endpoint

ToolCall(id, name, arguments) == [id |-> id, name |-> name, arguments |-> arguments]

ReadNotes == ToolCall("call_1", "Read", ArgsJson([NoFileArgs EXCEPT !.path = NotesArg]))
ReadEscaping ==
    ToolCall("call_2", "Read", ArgsJson([NoFileArgs EXCEPT !.path = TraversalArg]))
ReadBadJson == ToolCall("call_3", "Read", BadJson)
UnknownTool == ToolCall("call_4", "NoSuchTool", ArgsJson(NoFileArgs))
NamelessTool == ToolCall("call_5", None, NoArguments)
WriteSession ==
    ToolCall("call_6", "Write",
             ArgsJson([NoFileArgs EXCEPT !.path = SessionArg, !.content = <<"x">>]))

SendHello ==
    ToolCall("call_7", SendMessageName, ArgsJson([NoFileArgs EXCEPT !.text = "hello"]))
SendBye ==
    ToolCall("call_8", SendMessageName, ArgsJson([NoFileArgs EXCEPT !.text = "bye"]))
RemoveMessages ==
    ToolCall("call_9", "Bash", ArgsJson([NoFileArgs EXCEPT !.command = RemoveMessagesCmd]))
WriteNew ==
    ToolCall("call_10", "Write",
             ArgsJson([NoFileArgs EXCEPT !.path = NewFileArg, !.content = <<"x">>]))
ReadNew == ToolCall("call_11", "Read", ArgsJson([NoFileArgs EXCEPT !.path = NewFileArg]))

\* what client.chat.completions.create resolves to, or that it rejects
Message(content, calls) == [kind |-> "message", content |-> content, tool_calls |-> calls]
NoMessage == [kind |-> "nomessage", content |-> NullContent, tool_calls |-> <<>>]
Rejects == [kind |-> "rejects", content |-> NullContent, tool_calls |-> <<>>]

ToolResponses ==
    {Message(NullContent, <<ReadNotes>>),
     Message(NullContent, <<ReadEscaping>>),
     Message(NullContent, <<ReadBadJson>>),
     Message(NullContent, <<UnknownTool>>),
     Message(NullContent, <<NamelessTool>>),
     Message(NullContent, <<WriteSession>>),
     Message(Str(<<"let me look">>), <<UnknownTool, ReadNotes>>)}

FinalResponses ==
    {Message(Str(<<"done">>), <<>>),
     Message(Str(<<>>), <<>>),
     Message(Parts(<<<<"do">>, Missing, <<"ne">>>>), <<>>),
     Message(NullContent, <<>>),
     NoMessage,
     Rejects}

\* the responses whose calls publish IPC files, run the shell, or depend on
\* each other; a script gives such a response in its first round only
FirstRoundResponses ==
    {Message(NullContent, <<SendHello, SendBye>>),
     Message(NullContent, <<SendHello, RemoveMessages>>),
     Message(NullContent, <<WriteNew, ReadNew>>)}

\* the responses that fill the rounds before the last one of a script
FillResponses ==
    {Message(NullContent, <<ReadNotes>>), Message(NullContent, <<WriteSession>>)}
        \cup FirstRoundResponses

\* the rounds at which a script changes its response: the first two and the
\* last two of the budget
StopRounds == {1, 2, maxRounds - 1, maxRounds}

\* a scripted endpoint: fill in the rounds before round stop, last from
\* round stop on
Scripts ==
    {[fill |-> f, last |-> l, stop |-> s] :
        f \in FillResponses, l \in ToolResponses \cup FinalResponses, s \in StopRounds}

ResponseAt(k) == IF k < script.stop THEN script.fill ELSE script.last

\* ---- the invocation

ConnectionErrorText == <<"Connection error.">>
NoMessageText == <<"No message in completion response">>
MaxRoundsText == <<"Max tool rounds exceeded">>
MkdirErrorText == <<"EACCES: permission denied, mkdir '/workspace/group/.sessions'">>
ConfigErrorText ==
    <<"Set CUSTOM_PROVIDER_BASE_URL and CUSTOM_PROVIDER_API_KEY in .env, or create data/env/custom-provider.json with baseURL and apiKey">>

\* the mutant of ErrorOutput: the fault is reported as an empty success
ErrorOutput_Silent(id, message) ==
    [status |-> "success", result |-> Null, newSessionId |-> id, error |-> <<>>]

\* lines 172-177, 220-225, 239-244
ErrorOutput(id, message) ==
    [status |-> "error", result |-> Null, newSessionId |-> id, error |-> message]

\* the mutant of SuccessOutput: the completed invocation reports an error
SuccessOutput_AsError(id, res) ==
    [status |-> "error", result |-> res, newSessionId |-> id, error |-> <<>>]

\* lines 231-235
SuccessOutput(id, res) ==
    [status |-> "success", result |-> res, newSessionId |-> id, error |-> <<>>]

PriorTurns == <<UserTurn(<<"earlier">>), AssistantTurn(Str(<<"reply">>), <<>>)>>

\* an input, whether baseURL and apiKey resolve, and the session file s1.json
Invocation(sid, scheduled, configured, file) ==
    [prompt |-> <<"hello">>, sessionId |-> sid, isScheduledTask |-> scheduled,
     chatJid |-> GroupCtx.chatJid, groupFolder |-> GroupCtx.groupFolder,
     isMain |-> GroupCtx.isMain, configured |-> configured, file |-> file]

Invocations ==
    {Invocation(None, FALSE, TRUE, Absent),
     Invocation(None, TRUE, TRUE, Absent),
     Invocation("s1", FALSE, TRUE, Absent),
     Invocation("s1", FALSE, TRUE, TextFile(<<"{", "\"mess">>)),
     Invocation("s1", FALSE, TRUE, JsonFile(NoDoc)),
     Invocation("s1", TRUE, TRUE, JsonFile(StringifySession(PriorTurns))),
     Invocation("s1", FALSE, FALSE, JsonFile(StringifySession(PriorTurns)))}

\* line 140: input.sessionId ?? randomSessionId()
SessionIdOf(in) == IF in.sessionId = None THEN "fresh" ELSE in.sessionId

\* lines 144-147
PromptOf(in) ==
    IF in.isScheduledTask
    THEN <<"[SCHEDULED TASK - You are running automatically. Use mcp__nanoclaw__send_message if needed to communicate with the user.]\n\n">>
            \o in.prompt
    ELSE in.prompt

\* lines 129-133
CtxOf(in) == [chatJid |-> in.chatJid, groupFolder |-> in.groupFolder, isMain |-> in.isMain]

LoopFs(file) ==
    [p \in FsPaths \cup {SessionPath(id) : id \in SessionIds} \cup MessagePaths |->
        IF p = SessionPath("s1") THEN file
        ELSE IF p \in FsPaths THEN InitialFs[p] ELSE Absent]

InitLoop ==
    /\ clock = 0
    /\ WriterIdle
    /\ IpcIdle
    /\ ListIdle
    /\ input \in Invocations
    /\ script \in Scripts
    /\ script.stop = 1 => script.fill = Message(NullContent, <<ReadNotes>>)
    /\ script.fill \in FirstRoundResponses => script.stop = 2
    /\ fs = LoopFs(input.file)
    /\ ioLog = {}
    /\ lastTool = None
    /\ toolCalls = 0
    /\ sessionId = None
    /\ sessionAtStart = input.file
    /\ lpc = "idle"
    /\ round = 0
    /\ messages = <<>>
    /\ result = Null
    /\ outputs = <<>>
    /\ requests = 0
    /\ executed = <<>>
    /\ rethrown = FALSE
    /\ SessionsIdle
    /\ WebIdle

\* the mutant of LoopContinues: the comparison is off by one
LoopContinues_OffByOne(r) == r <= maxRounds

\* line 160: while (round < maxRounds)
LoopContinues(r) == r < maxRounds

\* line 219
BudgetExceeded(res, r) == res = Null /\ r >= maxRounds

\* control has left the while loop: by break, or by its condition
AtExit == lpc = "after" \/ (lpc = "loop" /\ ~LoopContinues(round))

\* the mutant of Start: the session is loaded before the configuration is
\* checked
Start_LoadsFirst ==
    /\ lpc = "idle"
    /\ sessionId' = SessionIdOf(input)
    /\ messages' = Append(LoadSession(fs, SessionIdOf(input)).messages,
                          UserTurn(PromptOf(input)))
    /\ ioLog' = ioLog \cup {[op |-> "load", path |-> SessionPath(SessionIdOf(input))]}
    /\ IF ~input.configured
       THEN /\ outputs' = Append(outputs, ErrorOutput(None, ConfigErrorText))
            /\ lpc' = "ended"
       ELSE /\ lpc' = "loop"
            /\ UNCHANGED outputs
    /\ UNCHANGED <<input, script, sessionAtStart, round, result, requests, executed,
                   rethrown, fs, notLoop>>

\* the mutant of Start: loadSession has no try/catch, so a session file that
\* does not parse ends the invocation before the loop
Start_ParseEscapes ==
    /\ lpc = "idle"
    /\ IF ~input.configured
       THEN /\ outputs' = Append(outputs, ErrorOutput(None, ConfigErrorText))
            /\ lpc' = "ended"
            /\ UNCHANGED <<sessionId, messages, ioLog, rethrown>>
       ELSE /\ sessionId' = SessionIdOf(input)
            /\ ioLog' = ioLog \cup {[op |-> "load", path |-> SessionPath(SessionIdOf(input))]}
            /\ UNCHANGED outputs
            /\ IF fs[SessionPath(SessionIdOf(input))].kind = "text"
               THEN /\ lpc' = "ended"
                    /\ rethrown' = TRUE
                    /\ UNCHANGED messages
               ELSE /\ messages' = Append(LoadSession(fs, SessionIdOf(input)).messages,
                                          UserTurn(PromptOf(input)))
                    /\ lpc' = "loop"
                    /\ UNCHANGED rethrown
    /\ UNCHANGED <<input, script, sessionAtStart, round, result, requests, executed,
                   fs, notLoop>>

\* lines 113-153: configuration, session id, loadSession, the new user turn
Start ==
    /\ lpc = "idle"
    /\ IF ~input.configured
       THEN /\ outputs' = Append(outputs, ErrorOutput(None, ConfigErrorText))
            /\ lpc' = "ended"
            /\ UNCHANGED <<sessionId, messages, ioLog>>
       ELSE /\ sessionId' = SessionIdOf(input)
            /\ messages' = Append(LoadSession(fs, SessionIdOf(input)).messages,
                                  UserTurn(PromptOf(input)))
            /\ ioLog' = ioLog \cup {[op |-> "load", path |-> SessionPath(SessionIdOf(input))]}
            /\ lpc' = "loop"
            /\ UNCHANGED outputs
    /\ UNCHANGED <<input, script, sessionAtStart, round, result, requests, executed,
                   rethrown, fs, notLoop>>

\* lines 160-168: the next round begins and its completion request is issued
Request ==
    /\ lpc = "loop"
    /\ LoopContinues(round)
    /\ round' = round + 1
    /\ requests' = requests + 1
    /\ lpc' = "awaiting"
    /\ UNCHANGED <<input, script, sessionId, sessionAtStart, messages, result, outputs,
                   executed, rethrown, fs, ioLog, notLoop>>

\* the mutant of CompletionRejects: the catch block clears the messages
\* directory before it reports the fault
CompletionRejects_Cleanup ==
    /\ lpc = "awaiting"
    /\ ResponseAt(round).kind = "rejects"
    /\ fs' = [p \in DOMAIN fs |-> IF p \in MessagePaths THEN Absent ELSE fs[p]]
    /\ outputs' = Append(outputs, ErrorOutput(sessionId, ConnectionErrorText))
    /\ rethrown' = TRUE
    /\ lpc' = "ended"
    /\ UNCHANGED <<input, script, sessionId, sessionAtStart, round, messages, result,
                   requests, executed, ioLog, notLoop>>

\* lines 236-245: the completion request rejects; the catch block reports it
\* and throws it again
CompletionRejects ==
    /\ lpc = "awaiting"
    /\ ResponseAt(round).kind = "rejects"
    /\ outputs' = Append(outputs, ErrorOutput(sessionId, ConnectionErrorText))
    /\ rethrown' = TRUE
    /\ lpc' = "ended"
    /\ UNCHANGED <<input, script, sessionId, sessionAtStart, round, messages, result,
                   requests, executed, fs, ioLog, notLoop>>

\* lines 170-179
CompletionWithoutMessage ==
    /\ lpc = "awaiting"
    /\ ResponseAt(round).kind = "nomessage"
    /\ outputs' = Append(outputs, ErrorOutput(sessionId, NoMessageText))
    /\ lpc' = "ended"
    /\ UNCHANGED <<input, script, sessionId, sessionAtStart, round, messages, result,
                   requests, executed, rethrown, fs, ioLog, notLoop>>

\* lines 182-207: the assistant turn and the tool-result turns are appended
AppendToolRound(msg, run) ==
    /\ messages' = messages \o <<AssistantTurn(msg.content, msg.tool_calls)>> \o run.turns
    /\ fs' = run.fs
    /\ ioLog' = ioLog \cup run.io
    /\ executed' = executed \o run.ran
    /\ IF run.escaped
       THEN /\ outputs' = Append(outputs, ErrorOutput(sessionId, run.message))
            /\ rethrown' = TRUE
            /\ lpc' = "ended"
       ELSE /\ lpc' = "loop"
            /\ UNCHANGED <<outputs, rethrown>>

\* the digits Math.random() gives to each call of a response (they matter to
\* the calls that publish an IPC file)
Draws(calls) ==
    IF \E i \in 1..Len(calls) : calls[i].name = SendMessageName
    THEN [1..Len(calls) -> RandomSuffixes]
    ELSE {[i \in 1..Len(calls) |-> "r1"]}

Envs(draws) == [i \in 1..Len(draws) |-> Env(CtxOf(input), clock, draws[i])]

\* lines 181-207: the response asks for tool calls; each is run and answered
\* by a tool-result turn
ToolRound ==
    /\ lpc = "awaiting"
    /\ ResponseAt(round).kind = "message"
    /\ ResponseAt(round).tool_calls # <<>>
    /\ \E draws \in Draws(ResponseAt(round).tool_calls) :
        \E run \in {RunTools(ResponseAt(round).tool_calls, fs, Envs(draws))} :
            AppendToolRound(ResponseAt(round), run)
    /\ UNCHANGED <<input, script, sessionId, sessionAtStart, round, result, requests,
                   notLoop>>

\* lines 181-182, 209-216: the response carries no tool call
TextRound ==
    /\ lpc = "awaiting"
    /\ ResponseAt(round).kind = "message"
    /\ ResponseAt(round).tool_calls = <<>>
    /\ messages' = Append(messages, AssistantTurn(ResponseAt(round).content, <<>>))
    /\ result' = TextOrNull(TextOf(ResponseAt(round).content))
    /\ lpc' = "after"
    /\ UNCHANGED <<input, script, sessionId, sessionAtStart, round, outputs, requests,
                   executed, rethrown, fs, ioLog, notLoop>>

\* lines 219-227
BudgetAbort ==
    /\ AtExit
    /\ BudgetExceeded(result, round)
    /\ outputs' = Append(outputs, ErrorOutput(sessionId, MaxRoundsText))
    /\ lpc' = "ended"
    /\ UNCHANGED <<input, script, sessionId, sessionAtStart, round, messages, result,
                   requests, executed, rethrown, fs, ioLog, notLoop>>

\* lines 229-235, 94-102: saveSession writes the file; success is reported
Complete ==
    /\ AtExit
    /\ ~BudgetExceeded(result, round)
    /\ fs' = [fs EXCEPT ![SessionPath(sessionId)] = JsonFile(StringifySession(messages))]
    /\ ioLog' = ioLog \cup {[op |-> "save", path |-> SessionPath(sessionId)]}
    /\ outputs' = Append(outputs, SuccessOutput(sessionId, result))
    /\ lpc' = "ended"
    /\ UNCHANGED <<input, script, sessionId, sessionAtStart, round, messages, result,
                   requests, executed, rethrown, notLoop>>

\* lines 97-101, 230-235: fs.writeFileSync throws inside saveSession, before
\* the file is opened (the file is as it was) or after the file was truncated
\* (the file is empty); the fault is logged and success is reported
CompleteWithoutSaving ==
    /\ AtExit
    /\ ~BudgetExceeded(result, round)
    /\ \E truncated \in BOOLEAN :
            fs' = IF truncated THEN [fs EXCEPT ![SessionPath(sessionId)] = TextFile(<<>>)]
                  ELSE fs
    /\ ioLog' = ioLog \cup {[op |-> "save", path |-> SessionPath(sessionId)]}
    /\ outputs' = Append(outputs, SuccessOutput(sessionId, result))
    /\ lpc' = "ended"
    /\ UNCHANGED <<input, script, sessionId, sessionAtStart, round, messages, result,
                   requests, executed, rethrown, notLoop>>

\* the mutant of SaveDirectoryFails: the catch block throws the fault again
\* without reporting it
SaveDirectoryFails_Unreported ==
    /\ AtExit
    /\ ~BudgetExceeded(result, round)
    /\ rethrown' = TRUE
    /\ lpc' = "ended"
    /\ UNCHANGED <<input, script, sessionId, sessionAtStart, round, messages, result,
                   outputs, requests, executed, fs, ioLog, notLoop>>

\* lines 95, 236-245: fs.mkdirSync throws inside saveSession; the catch block
\* reports it and throws it again
SaveDirectoryFails ==
    /\ AtExit
    /\ ~BudgetExceeded(result, round)
    /\ outputs' = Append(outputs, ErrorOutput(sessionId, MkdirErrorText))
    /\ rethrown' = TRUE
    /\ lpc' = "ended"
    /\ UNCHANGED <<input, script, sessionId, sessionAtStart, round, messages, result,
                   requests, executed, fs, ioLog, notLoop>>

NextLoop ==
    \/ Start
    \/ Request
    \/ CompletionRejects
    \/ CompletionWithoutMessage
    \/ ToolRound
    \/ TextRound
    \/ BudgetAbort
    \/ Complete
    \/ CompleteWithoutSaving
    \/ SaveDirectoryFails

SpecLoop == InitLoop /\ [][NextLoop]_vars

\* the event loop runs the invocation on; every completion request settles
FairSpecLoop == SpecLoop /\ WF_vars(NextLoop)

(***************************************************************************)
(* Invocations of runCustomProvider that share the session directory: each  *)
(* is a process of its own (one agent-runner per container run) over the    *)
(* same /workspace/group/.sessions                                          *)
(***************************************************************************)

Runners == {"p1", "p2"}

\* invocations one process runs, one after the other
MaxInvocations == 2

\* the session ids that the inputs supply
SharedSessionIds == {"s1", "s2"}

\* the prompt of an invocation names the process that runs it
PromptFrom(p) == <<"prompt of ", p>>

NotStarted(id) ==
    [pc |-> "idle", sessionId |-> id, messages |-> <<>>, round |-> 0, started |-> 0]

InitSessions ==
    /\ clock = 0
    /\ WriterIdle
    /\ IpcIdle
    /\ ListIdle
    /\ LoopIdle
    /\ fs \in [{SessionPath(id) : id \in SharedSessionIds} ->
                  {Absent, JsonFile(StringifySession(PriorTurns))}]
    /\ ioLog = {}
    /\ lastTool = None
    /\ toolCalls = 0
    /\ runs \in [Runners -> {NotStarted(id) : id \in SharedSessionIds}]
    /\ WebIdle

\* lines 140-153: loadSession and the new user turn
SessionStart(p) ==
    /\ runs[p].pc = "idle"
    /\ runs[p].started < MaxInvocations
    /\ runs' = [runs EXCEPT ![p].pc = "loop",
                            ![p].messages =
                                Append(LoadSession(fs, runs[p].sessionId).messages,
                                       UserTurn(PromptFrom(p))),
                            ![p].round = 0,
                            ![p].started = runs[p].started + 1]
    /\ UNCHANGED <<fs, notSessions>>

\* lines 161-207: a completion that asks for a tool call; the assistant turn
\* and the tool-result turn are appended
SessionToolRound(p) ==
    /\ runs[p].pc = "loop"
    /\ runs[p].round = 0
    /\ runs' = [runs EXCEPT ![p].round = 1,
                            ![p].messages =
                                runs[p].messages
                                    \o <<AssistantTurn(NullContent, <<ReadNotes>>),
                                         ToolTurn(ReadNotes.id, NotesText)>>]
    /\ UNCHANGED <<fs, notSessions>>

\* lines 161-182, 209-235: a completion with plain text; the assistant turn
\* is appended, saveSession writes the whole history, success is reported
SessionCompletes(p) ==
    /\ runs[p].pc = "loop"
    /\ runs' = [runs EXCEPT ![p].pc = "idle",
                            ![p].round = runs[p].round + 1,
                            ![p].messages =
                                Append(runs[p].messages,
                                       AssistantTurn(Str(<<"done">>), <<>>))]
    /\ fs' = [fs EXCEPT ![SessionPath(runs[p].sessionId)] =
                 JsonFile(StringifySession(runs'[p].messages))]
    /\ UNCHANGED notSessions

\* lines 236-245: the completion request rejects; nothing is saved
SessionFails(p) ==
    /\ runs[p].pc = "loop"
    /\ runs' = [runs EXCEPT ![p].pc = "idle"]
    /\ UNCHANGED <<fs, notSessions>>

NextSessions ==
    \/ \E p \in Runners : SessionStart(p)
    \/ \E p \in Runners : SessionToolRound(p)
    \/ \E p \in Runners : SessionCompletes(p)
    \/ \E p \in Runners : SessionFails(p)

SpecSessions == InitSessions /\ [][NextSessions]_vars

(***************************************************************************)
(* The web server: startWebServer and handleAsk (web-server)               *)
(***************************************************************************)

\* requests the server receives
MaxRequests == 2

Methods == {"GET", "POST", "OPTIONS"}

\* req.url, as the pieces around "?"; a request can come without one
Urls ==
    {<<"/ask">>, <<"/ask", "?", "x=1">>, <<"/">>, <<"/index.html">>, <<"/tasks">>, Missing}

\* line 159: req.url ?? '/'
UrlOf(r) == IF r.url = Missing THEN <<"/">> ELSE r.url

\* line 160: url.split('?')[0]
Pathname(url) == Split(url, "?")[1]

\* payload.prompt: no such property, a value that is not a string, a string
NoPrompt == [given |-> FALSE, isString |-> FALSE, chars |-> <<>>]
NumberPrompt == [given |-> TRUE, isString |-> FALSE, chars |-> <<>>]
StringPrompt(chars) == [given |-> TRUE, isString |-> TRUE, chars |-> chars]

\* the values a JSON text denotes: null, a number, an object
JsonNull == [type |-> "null", prompt |-> NoPrompt]
JsonNumber == [type |-> "number", prompt |-> NoPrompt]
JsonObject(prompt) == [type |-> "object", prompt |-> prompt]

\* the text of a request body: nothing, text that is not JSON, a JSON text
EmptyBody == [kind |-> "empty", value |-> JsonNull]
GarbageBody == [kind |-> "garbage", value |-> JsonNull]
JsonBody(value) == [kind |-> "json", value |-> value]

Bodies ==
    {EmptyBody, GarbageBody, JsonBody(JsonNull), JsonBody(JsonNumber),
     JsonBody(JsonObject(NoPrompt)), JsonBody(JsonObject(NumberPrompt)),
     JsonBody(JsonObject(StringPrompt(<<" ">>))),
     JsonBody(JsonObject(StringPrompt(<<" ", "h", "i", " ">>)))}

WebRequests == [method : Methods, url : Urls, body : Bodies]

\* line 90: body || '{}'
BodyOrBraces(body) ==
    IF body.kind = "empty" THEN JsonBody(JsonObject(NoPrompt)) ELSE body

\* line 90: JSON.parse throws on a text that is not JSON
ParseBody(text) == [threw |-> text.kind # "json", payload |-> text.value]

\* line 95: reading payload.prompt throws a TypeError when payload is null;
\* a prompt that is not a string counts as ''
TrimmedPrompt(payload) ==
    [threw |-> payload.type = "null",
     prompt |-> IF payload.prompt.isString THEN Trim(payload.prompt.chars) ELSE <<>>]

\* the ContainerOutput values runContainerAgent resolves with
ContainerOutputs ==
    {[status |-> "success", result |-> <<"answer">>, error |-> Missing],
     [status |-> "success", result |-> Null, error |-> Missing],
     [status |-> "error", result |-> Null, error |-> <<"container failed">>],
     [status |-> "error", result |-> Null, error |-> Missing]}

\* sendJson, sendHtml, and writeHead(204) with end(): one response on res
Responded(code, data) == Append(sent, [code |-> code, data |-> data])

\* lines 123-130: the response to an agent run that returned
AskResult(output) ==
    IF output.status = "success"
    THEN [status |-> "success",
          text |-> IF output.result = Null THEN <<>> ELSE output.result]
    ELSE [status |-> "error",
          text |-> IF output.error = Missing THEN <<"Unknown error">> ELSE output.error]

ErrorData(text) == [status |-> "error", text |-> <<text>>]

InitWeb ==
    /\ clock = 0
    /\ WriterIdle
    /\ IpcIdle
    /\ ListIdle
    /\ ToolsIdle
    /\ LoopIdle
    /\ SessionsIdle
    /\ WebIdle

\* lines 150-171, and handleAsk up to await readBody (76-82): a request
\* arrives and the callback runs to its end or to its first await
RequestArrives ==
    /\ hpc \in {"listening", "done", "rejected"}
    /\ handled < MaxRequests
    /\ \E r \in WebRequests, indexReadable \in BOOLEAN :
        /\ req' = r
        /\ IF r.method = "OPTIONS"
           THEN /\ sent' = <<[code |-> 204, data |-> [status |-> "none", text |-> <<>>]]>>
                /\ hpc' = "done"
           ELSE IF Pathname(UrlOf(r)) = <<"/ask">>
           THEN IF r.method # "POST"
                THEN /\ sent' = <<[code |-> 405, data |-> ErrorData("Method not allowed")]>>
                     /\ hpc' = "done"
                ELSE /\ sent' = <<>>
                     /\ hpc' = "reading"
           ELSE IF Pathname(UrlOf(r)) \in {<<"/">>, <<"/index.html">>}
           THEN /\ sent' = IF indexReadable
                           THEN <<[code |-> 200, data |-> [status |-> "html", text |-> <<>>]]>>
                           ELSE <<[code |-> 500, data |-> ErrorData("Missing public/index.html")]>>
                /\ hpc' = "done"
           ELSE /\ sent' = <<[code |-> 404, data |-> ErrorData("Not found")]>>
                /\ hpc' = "done"
    /\ agentRuns' = <<>>
    /\ handled' = handled + 1
    /\ UNCHANGED notWeb

\* lines 82-118: the body has arrived; JSON.parse, the prompt, the preflight
\* (ensureContainerSystemRunning, ensureDirs), and the call of the agent
BodyRead ==
    /\ hpc = "reading"
    /\ \E preflight \in {"ok", "fails"} :
        IF ParseBody(BodyOrBraces(req.body)).threw
        THEN /\ sent' = Responded(400, ErrorData("Invalid JSON"))
             /\ hpc' = "done"
             /\ UNCHANGED agentRuns
        ELSE IF TrimmedPrompt(ParseBody(BodyOrBraces(req.body)).payload).threw
        THEN /\ hpc' = "rejected"
             /\ UNCHANGED <<sent, agentRuns>>
        ELSE IF TrimmedPrompt(ParseBody(BodyOrBraces(req.body)).payload).prompt = <<>>
        THEN /\ sent' = Responded(400, ErrorData("Missing or empty prompt"))
             /\ hpc' = "done"
             /\ UNCHANGED agentRuns
        ELSE IF preflight = "fails"
        THEN /\ sent' = Responded(503, ErrorData("Apple Container not running. Run: container system start"))
             /\ hpc' = "done"
             /\ UNCHANGED agentRuns
        ELSE /\ agentRuns' =
                 Append(agentRuns,
                        TrimmedPrompt(ParseBody(BodyOrBraces(req.body)).payload).prompt)
             /\ hpc' = "running"
             /\ UNCHANGED sent
    /\ UNCHANGED <<req, handled, notWeb>>

\* lines 83-87: the request stream emits 'error' and readBody rejects
BodyFails ==
    /\ hpc = "reading"
    /\ sent' = Responded(400, ErrorData("Invalid request body"))
    /\ hpc' = "done"
    /\ UNCHANGED <<req, agentRuns, handled, notWeb>>

\* lines 113-130: runContainerAgent resolves
AgentResolves ==
    /\ hpc = "running"
    /\ \E output \in ContainerOutputs : sent' = Responded(200, AskResult(output))
    /\ hpc' = "done"
    /\ UNCHANGED <<req, agentRuns, handled, notWeb>>

\* lines 131-135: runContainerAgent rejects
AgentRejects ==
    /\ hpc = "running"
    /\ sent' = Responded(500, ErrorData("agent failed"))
    /\ hpc' = "done"
    /\ UNCHANGED <<req, agentRuns, handled, notWeb>>

NextWeb ==
    \/ RequestArrives
    \/ BodyRead
    \/ BodyFails
    \/ AgentResolves
    \/ AgentRejects

SpecWeb == InitWeb /\ [][NextWeb]_vars

(***************************************************************************)
(* The claims                                                               *)
(***************************************************************************)

ScheduleFiles == {f \in ipcFiles : f.data.type = "schedule_task"}

\* C2: for every schedule_task call made by an invocation with isMain = false,
\* by the SDK tool and by the function-calling executor, the target written in
\* the payload (targetJid, resp. groupFolder and chatJid) is the caller's own
\* conversation / folder from the invocation context, whatever target
\* argument the caller supplied.
C2_NonMainTargetsSelf ==
    ~ctx.isMain =>
        \A f \in ScheduleFiles :
            /\ "targetJid" \in DOMAIN f.data => f.data.targetJid = ctx.chatJid
            /\ "groupFolder" \in DOMAIN f.data =>
                    /\ f.data.groupFolder = ctx.groupFolder
                    /\ f.data.chatJid = ctx.chatJid
            /\ f.data.createdBy = ctx.groupFolder

\* C2 witness: a caller with isMain = false has named another group as the
\* target, and both variants of schedule_task have written their payload.
C2_Witness ==
    /\ ~ctx.isMain
    /\ callArgs.target_group_jid = OtherJid
    /\ callArgs.target_group = OtherFolder
    /\ \E f \in ScheduleFiles : "targetJid" \in DOMAIN f.data
    /\ \E f \in ScheduleFiles : "groupFolder" \in DOMAIN f.data

\* the kind and the value that the last schedule_task call validated
LastKind ==
    IF lastCall.server = "sdk" THEN callArgs.schedule_type ELSE OaScheduleType(callArgs)

LastValue ==
    IF lastCall.server = "sdk" THEN callArgs.schedule_value ELSE OaScheduleValue(callArgs)

RejectionHeads == {"Invalid cron: \"", "Invalid interval: \"", "Invalid timestamp: \""}

\* C3: a schedule_task call whose value fails the validation of its kind
\* (cron, interval, once) returns a rejection text that names the value and
\* writes no file; every schedule_task payload of one of these kinds in an
\* IPC directory carries a value that passed the validation of its kind.
C3_InvalidScheduleWritesNothing ==
    /\ (/\ lastCall.tool = "schedule_task"
        /\ LastKind \in ScheduleKinds
        /\ ~Validates(LastKind, LastValue))
            => /\ ~lastCall.threw
               /\ lastCall.wrote = {}
               /\ Len(lastCall.text) = 3
               /\ lastCall.text[1] \in RejectionHeads
               /\ lastCall.text[2] = LastValue
    /\ \A f \in ScheduleFiles :
            f.data.schedule_type \in ScheduleKinds
                => Validates(f.data.schedule_type, f.data.schedule_value)

\* C3 witness: after an earlier call has written a file, a schedule_task call
\* with a value that fails the validation of its kind has returned.
C3_Witness ==
    /\ lastCall.tool = "schedule_task"
    /\ LastKind \in ScheduleKinds
    /\ ~Validates(LastKind, LastValue)
    /\ ipcCalls = 2
    /\ ipcFiles # {}

\* the register_group payloads in the IPC directories
RegisterFiles == {f \in ipcFiles : f.data.type = "register_group"}

\* C4: register_group called by an invocation with isMain = false writes no
\* file and returns the text 'Only the main group can register new groups.';
\* each register_group payload lies in the tasks directory and was written by
\* an invocation with isMain = true.
C4_RegisterOnlyByMain ==
    /\ (lastCall.tool = "register_group" /\ ~ctx.isMain)
            => /\ ~lastCall.threw
               /\ lastCall.wrote = {}
               /\ lastCall.text = OnlyMainText
    /\ \A f \in RegisterFiles : ctx.isMain /\ f.dir = TASKS_DIR

\* C4 witness: a caller with isMain = false, which has written a file with an
\* earlier call, has called register_group.
C4_Witness ==
    /\ ~ctx.isMain
    /\ lastCall.tool = "register_group"
    /\ ipcCalls = 2
    /\ ipcFiles # {}

\* a path lies inside the sandbox root: it is the root or a path below it
InsideRoot(p) ==
    p = WORKSPACE_GROUP \/ StartsWith(p, WORKSPACE_GROUP \o <<"/">>)

\* C8 (as stated): for every path argument given to Read, Write and Edit,
\* either the call throws before any file system call is made, or every file
\* system call it makes is on a path inside the sandbox root /workspace/group.
C8_NoIoOutsideRoot ==
    /\ \A e \in ioLog : InsideRoot(e.path)
    /\ lastTool.tool # None =>
            \/ lastTool.threw /\ lastTool.io = {}
            \/ ~lastTool.threw /\ \A e \in lastTool.io : InsideRoot(e.path)

\* the entries of a snapshot that a folder owns, in their order
RECURSIVE OwnedBy(_, _)
OwnedBy(tasks, folder) ==
    IF tasks = <<>> THEN <<>>
    ELSE (IF Head(tasks).groupFolder = folder THEN <<Head(tasks)>> ELSE <<>>)
            \o OwnedBy(Tail(tasks), folder)

\* the listing text mentions the entry: its "- [id] " line head occurs
Lists(text, t) ==
    \E i \in 1..(Len(text) - 2) : text[i] = "- [" /\ text[i + 1] = t.id

\* C9: list_tasks called by a caller with isMain = false lists exactly the
\* snapshot entries whose groupFolder is the caller's folder, so it returns
\* the same text over any two snapshots that differ only in entries owned by
\* other folders; called by the main caller it lists every entry.
C9_ListShowsOwnTasksOnly ==
    /\ (outA # NoOutput /\ snapA.kind = "array") =>
            \A i \in 1..Len(snapA.tasks) :
                Lists(outA.text, snapA.tasks[i])
                    <=> (ctx.isMain \/ snapA.tasks[i].groupFolder = ctx.groupFolder)
    /\ (/\ ~ctx.isMain
        /\ outA # NoOutput
        /\ outB # NoOutput
        /\ snapA.kind = "array"
        /\ snapB.kind = "array"
        /\ OwnedBy(snapA.tasks, ctx.groupFolder) = OwnedBy(snapB.tasks, ctx.groupFolder))
            => outA.text = outB.text

\* C9 witness: a caller with isMain = false has listed two snapshots that
\* hold the same entry of its own and different entries of other folders.
C9_Witness ==
    /\ ~ctx.isMain
    /\ outA # NoOutput
    /\ outB # NoOutput
    /\ snapA.kind = "array"
    /\ snapB.kind = "array"
    /\ snapA.tasks # snapB.tasks
    /\ OwnedBy(snapA.tasks, ctx.groupFolder) = OwnedBy(snapB.tasks, ctx.groupFolder)
    /\ OwnedBy(snapA.tasks, ctx.groupFolder) # <<>>
    /\ Len(snapA.tasks) = 2
    /\ Len(snapB.tasks) = 2

\* the endpoint asks for tool calls in every round
AlwaysToolCalls ==
    /\ script.fill \in ToolResponses \cup FirstRoundResponses
    /\ script.last \in ToolResponses

\* C5: in every run of runCustomProvider the number of completion requests
\* never exceeds the round budget of 30; when every response asks for a tool
\* call, the run ends, and it ends after exactly 30 requests with the one
\* error output 'Max tool rounds exceeded'.
C5_RoundBudget ==
    /\ [](requests <= maxRounds /\ requests = round)
    /\ []((lpc = "ended" /\ input.configured /\ AlwaysToolCalls)
            => /\ requests = maxRounds
               /\ outputs = <<ErrorOutput(sessionId, MaxRoundsText)>>
               /\ ~rethrown)
    /\ (lpc = "idle" /\ input.configured /\ AlwaysToolCalls) ~> (lpc = "ended")

\* C5 witness: a run whose every response asked for a tool call has ended
\* after 30 requests.
C5_Witness ==
    /\ lpc = "ended"
    /\ AlwaysToolCalls
    /\ requests = maxRounds
    /\ outputs # <<>>

\* the output of the invocation that has ended
LastOutput == outputs[Len(outputs)]

Ended(status) == lpc = "ended" /\ outputs # <<>> /\ LastOutput.status = status

\* the turns the invocation started from: the persisted ones, then the new
\* user turn
StartTurns == Append(LoadSession(LoopFs(input.file), SessionIdOf(input)).messages,
                     UserTurn(PromptOf(input)))

\* the script is one tool-call round, with one call, then a plain-text round
ToolThenText ==
    /\ script.stop = 2
    /\ Len(script.fill.tool_calls) = 1
    /\ script.last.kind = "message"
    /\ script.last.tool_calls = <<>>
    /\ script.last.content.type = "string"
    /\ script.last.content.parts[1] # <<>>

\* C6 (as stated): after an invocation that ends with status success, loading
\* the session under the same session id returns the invocation's turn
\* sequence: the persisted turns, the new user turn, then the assistant and
\* tool-result turns in order; for a tool-call round followed by a
\* plain-text round exactly one tool is executed, one tool-result turn is
\* appended, and the plain text is the result.
C6_SuccessReloadsHistory ==
    Ended("success") =>
        /\ ~LoadSession(fs, sessionId).isNull
        /\ LoadSession(fs, sessionId).messages = messages
        /\ SubSeq(messages, 1, Len(StartTurns)) = StartTurns
        /\ ToolThenText =>
                /\ Len(executed) = 1
                /\ Len(messages) = Len(StartTurns) + 3
                /\ messages[Len(StartTurns) + 2].role = "tool"
                /\ LastOutput.result = script.last.content.parts[1]

\* a file tool has written the session file of the invocation
ToolWroteSession == [op |-> "write", path |-> SessionPath(SessionIdOf(input))] \in ioLog

FailingCalls == {ReadEscaping, ReadBadJson, UnknownTool, NamelessTool}

\* the text of the tool-result turn that answers a failing call
FailureText(tc) ==
    CASE tc = UnknownTool -> <<"Unknown tool: ", "NoSuchTool">>
      [] tc = NamelessTool -> <<"Unknown tool: ", "null">>
      [] tc = ReadBadJson -> <<"Error: ", "Unexpected token in JSON at position 1">>
      [] tc = ReadEscaping ->
            <<"Error: ", "Path ">> \o TraversalArg \o <<" resolves outside /workspace/group">>

\* the last response asked for tool calls and their turns have been appended
AfterToolRound ==
    /\ lpc = "loop"
    /\ round >= 1
    /\ ResponseAt(round).tool_calls # <<>>

\* what C10 requires of a state
ToolFailureAnswered ==
    AfterToolRound =>
        /\ outputs = <<>>
        /\ ~rethrown
        /\ LET calls == ResponseAt(round).tool_calls
               base == Len(messages) - Len(calls)
           IN /\ base >= 1
              /\ messages[base].role = "assistant"
              /\ \A i \in 1..Len(calls) :
                    /\ messages[base + i].role = "tool"
                    /\ messages[base + i].tool_call_id = calls[i].id
                    /\ calls[i] \in FailingCalls
                            => messages[base + i].content = Str(FailureText(calls[i]))

\* C10: a tool call with an unknown tool name, with arguments that are not
\* JSON, or whose executor throws (the path-escape rejection of Read) is
\* answered by a tool-result turn with the failure as its text, under the
\* call's id; no output is written, and the step after the tool round is the
\* request of the next round (unless the budget is used up).
C10_ToolFailureContinues ==
    /\ []ToolFailureAnswered
    /\ [][(lpc = "awaiting" /\ ResponseAt(round).tool_calls # <<>>) => lpc' = "loop"]_vars
    /\ [][(AfterToolRound /\ round < maxRounds)
            => (lpc' = "awaiting" /\ round' = round + 1)]_vars

\* C10 witness: after a round whose tool call failed, the next round's
\* request has been issued.
C10_Witness ==
    /\ lpc = "awaiting"
    /\ round >= 2
    /\ \E i \in 1..Len(ResponseAt(round - 1).tool_calls) :
            ResponseAt(round - 1).tool_calls[i] \in FailingCalls
    /\ outputs = <<>>

\* C12 (as stated): any two writeIpcFile calls into the same directory use
\* different file names (and so different staging names, the final name plus
\* ".tmp"): no name of a directory is generated by more than one call.
C12_DistinctNames ==
    \A k \in DOMAIN generated : generated[k] <= 1

\* C13 (as stated): when the staging write or the rename of a writeIpcFile
\* call fails, the call throws and the target directory holds no staging
\* entry of that call afterwards.
C13_FailureLeavesNoArtifact ==
    [][\A w \in Writers :
          (wpc[w] \in {"writing", "written"} /\ wpc'[w] = "threw")
              => ~\E e \in dirEntries' :
                     e.dir = wdir[w] /\ e.name = wname[w] /\ e.tmp]_vars

\* a text is a positive base-10 integer: digits only, with a value above zero
PositiveInteger(v) ==
    /\ v # Missing
    /\ Len(v) >= 1
    /\ \A i \in 1..Len(v) : v[i] \in DigitChars
    /\ DigitsValue(v) > 0

\* C14 (as stated): schedule_task with kind interval accepts the schedule
\* value (writes the task file instead of returning the rejection text)
\* exactly when the value is a positive base-10 integer.
C14_IntervalAcceptsPositiveIntegers ==
    (/\ lastCall.tool = "schedule_task"
     /\ LastKind = "interval"
     /\ ~lastCall.threw)
        => ((lastCall.wrote # {}) <=> PositiveInteger(LastValue))

NothingVisible(c, snapshot) ==
    \/ snapshot.kind = "absent"
    \/ /\ snapshot.kind = "array"
       /\ \A i \in 1..Len(snapshot.tasks) :
                ~c.isMain /\ snapshot.tasks[i].groupFolder # c.groupFolder

\* C19: list_tasks returns the text 'No scheduled tasks found.' when the
\* snapshot file is absent and when the snapshot holds no entry visible to
\* the caller; the call returns (the model's list_tasks has no throwing
\* outcome) and the text is not the 'Error reading tasks' text.
C19_NoTasksIsNotAnError ==
    /\ (outA # NoOutput /\ NothingVisible(ctx, snapA)) => outA.text = NoTasksText
    /\ (outB # NoOutput /\ NothingVisible(ctx, snapB)) => outB.text = NoTasksText

\* C19 witness: a caller with isMain = false has listed an absent snapshot
\* and a snapshot that holds entries of other folders only.
C19_Witness ==
    /\ ~ctx.isMain
    /\ outA # NoOutput
    /\ outB # NoOutput
    /\ snapA.kind = "absent"
    /\ snapB.kind = "array"
    /\ Len(snapB.tasks) = 2
    /\ NothingVisible(ctx, snapB)

\* the IPC files a tool call of the invocation has published
Published == {e \in ioLog : e.op = "publish"}

\* the messages directory as it is now
MessageFiles == [p \in MessagePaths |-> fs[p]]

\* the step runs the tool calls of a response
IsToolRound == lpc = "awaiting" /\ ResponseAt(round).tool_calls # <<>>

\* C11 (as stated): every IPC file that a tool call has published during an
\* invocation is present, with the payload that was published, when the
\* invocation has ended.
C11_PublishedFilesRemain ==
    lpc = "ended" => \A e \in Published : fs[e.path] = JsonFile(e.data)

\* C11 (amended): the session loop itself never creates, deletes or rewrites
\* a file in the IPC directories: every step that is not the execution of the
\* tool calls of a response leaves them as they are, however the invocation
\* ends, and every file in them holds a payload that a tool call published.
C11_LoopLeavesIpcFiles ==
    /\ [][~IsToolRound => MessageFiles' = MessageFiles]_vars
    /\ [](\A p \in MessagePaths :
            fs[p] # Absent
                => \E e \in Published : e.path = p /\ fs[p] = JsonFile(e.data))

\* C11 witness: an invocation whose tool calls published two files has ended
\* with a rejected completion request, and both files hold their payloads.
C11_Witness ==
    /\ lpc = "ended"
    /\ rethrown
    /\ Cardinality({e.path : e \in Published}) = 2
    /\ \A e \in Published : fs[e.path] = JsonFile(e.data)

\* the last response received carried no tool calls
TextResponse ==
    /\ round >= 1
    /\ ResponseAt(round).kind = "message"
    /\ ResponseAt(round).tool_calls = <<>>

\* C15 (as stated): when a completion response of a round within the budget
\* carries no tool calls, the invocation ends with status success and with
\* the text of the response (the string, or the text parts joined in order)
\* as the result.
C15_TextResponseSucceeds ==
    (lpc = "ended" /\ TextResponse)
        => /\ Ended("success")
           /\ LastOutput.result = TextOf(ResponseAt(round).content)

\* the invocation has ended by a transport failure (the completion request
\* rejected), a protocol error (a response without a message) or the
\* exhaustion of the round budget (round 30 asked for tool calls again)
TransportFailure == lpc = "ended" /\ round >= 1 /\ ResponseAt(round).kind = "rejects"
ProtocolError == lpc = "ended" /\ round >= 1 /\ ResponseAt(round).kind = "nomessage"
BudgetExhausted ==
    lpc = "ended" /\ round = maxRounds /\ ResponseAt(round).tool_calls # <<>>

\* C16: a transport failure, a protocol error and the exhaustion of the round
\* budget are each reported by one output with status error, a non-empty
\* error message, no result, and the session id of the invocation, which is
\* the supplied sessionId when the input gave one.
C16_FailuresAreReported ==
    (TransportFailure \/ ProtocolError \/ BudgetExhausted)
        => /\ Len(outputs) = 1
           /\ outputs[1].status = "error"
           /\ outputs[1].error # <<>>
           /\ outputs[1].result = Null
           /\ outputs[1].newSessionId = sessionId
           /\ sessionId # None
           /\ input.sessionId # None => outputs[1].newSessionId = input.sessionId
           /\ TransportFailure => outputs[1].error = ConnectionErrorText
           /\ ProtocolError => outputs[1].error = NoMessageText
           /\ BudgetExhausted => outputs[1].error = MaxRoundsText

\* C16 witness: an invocation with a supplied session id has ended by a
\* rejected completion request after a tool round.
C16_Witness ==
    /\ TransportFailure
    /\ round >= 2
    /\ executed # <<>>
    /\ input.sessionId = "s1"
    /\ outputs # <<>>

\* C17: when no base URL or no API key resolves, the invocation writes the
\* one error output of the configuration check and ends: it issues no
\* completion request, runs no tool, makes no file system call on a session
\* file or on any other file, and takes no step after the output.
C17_ConfigErrorStopsFirst ==
    /\ [](~input.configured
            => /\ lpc \in {"idle", "ended"}
               /\ requests = 0
               /\ round = 0
               /\ executed = <<>>
               /\ ioLog = {}
               /\ fs = LoopFs(input.file)
               /\ sessionId = None
               /\ messages = <<>>
               /\ ~rethrown
               /\ lpc = "idle" => outputs = <<>>
               /\ lpc = "ended" => outputs = <<ErrorOutput(None, ConfigErrorText)>>)
    /\ [][lpc # "ended"]_vars

\* C17 witness: an invocation without a resolvable provider, whose session
\* file exists, has ended with its one output.
C17_Witness ==
    /\ ~input.configured
    /\ lpc = "ended"
    /\ input.sessionId = "s1"
    /\ input.file.kind = "json"
    /\ Len(outputs) = 1

\* turn i of a history is an assistant turn that asks for tool calls
AsksForTools(history, i) ==
    history[i].role = "assistant" /\ history[i].tool_calls # <<>>

\* every assistant tool-call turn of the history is followed by one
\* tool-result turn per call, in the order of the calls and under their ids,
\* and every tool-result turn answers a call of the assistant turn before it
Answers(history) ==
    /\ \A i \in 1..Len(history) :
          AsksForTools(history, i)
              => /\ i + Len(history[i].tool_calls) <= Len(history)
                 /\ \A j \in 1..Len(history[i].tool_calls) :
                        /\ history[i + j].role = "tool"
                        /\ history[i + j].tool_call_id = history[i].tool_calls[j].id
                 /\ i + Len(history[i].tool_calls) < Len(history)
                        => history[i + Len(history[i].tool_calls) + 1].role # "tool"
    /\ \A k \in 1..Len(history) :
          history[k].role = "tool"
              => \E i \in 1..(k - 1) :
                    AsksForTools(history, i) /\ k - i <= Len(history[i].tool_calls)

\* the ids of the calls whose executor is run: a known tool, arguments that
\* parse
RECURSIVE RunIds(_)
RunIds(calls) ==
    IF calls = <<>> THEN <<>>
    ELSE (IF Head(calls).name \in ExecutorNames /\ ArgsStr(Head(calls)).valid
          THEN <<Head(calls).id>> ELSE <<>>) \o RunIds(Tail(calls))

\* C20: the tool calls of a response are executed one at a time in the order
\* of the response (a call sees the files as the call before it left them);
\* the history that a completion request carries answers every assistant
\* tool-call turn by one tool-result turn per call, in order and under the
\* call's id; the request of the next round is issued only from a history in
\* which all tool results of the round are appended.
C20_ToolCallsInOrder ==
    /\ [](lpc = "awaiting" => Answers(messages))
    /\ [](AfterToolRound
            => /\ Answers(messages)
               /\ Len(executed) >= Len(RunIds(ResponseAt(round).tool_calls))
               /\ SubSeq(executed,
                         Len(executed) - Len(RunIds(ResponseAt(round).tool_calls)) + 1,
                         Len(executed)) = RunIds(ResponseAt(round).tool_calls)
               /\ ResponseAt(round).tool_calls = <<WriteNew, ReadNew>>
                    => messages[Len(messages)].content = Str(<<"x">>))
    /\ [][lpc' = "awaiting" => (lpc = "loop" /\ Answers(messages) /\ messages' = messages)]_vars

\* C20 witness: the request of round 2 has been issued after a round of two
\* tool calls, the second of which read what the first wrote.
C20_Witness ==
    /\ lpc = "awaiting"
    /\ round = 2
    /\ ResponseAt(1).tool_calls = <<WriteNew, ReadNew>>
    /\ executed = <<WriteNew.id, ReadNew.id>>
    /\ Len(messages) >= 4

\* the schedule_task payloads written by the function-calling executor (the
\* payload of lines 395-405 carries groupFolder and chatJid, the SDK tool's
\* carries targetJid)
OaScheduleFiles == {f \in ScheduleFiles : "groupFolder" \in DOMAIN f.data}

\* C23 (as stated): every schedule_task payload that the function-calling
\* executor has put into the tasks directory has a schedule_type that is one
\* of cron, interval, once and a schedule_value that passed the validation of
\* that kind, whatever argument record the caller passed (a missing or an
\* unrecognised schedule_type included).
C23_QueuedSchedulesAreValidated ==
    \A f \in OaScheduleFiles :
        /\ f.dir = TASKS_DIR
        /\ f.data.schedule_type \in ScheduleKinds
        /\ Validates(f.data.schedule_type, f.data.schedule_value)

\* the payloads that carry the requester's conversation, the requester's
\* folder, and the requester's privilege
MessagePayloads == {f \in ipcFiles : f.data.type = "message"}
ControlPayloads ==
    {f \in ipcFiles : f.data.type \in {"pause_task", "resume_task", "cancel_task"}}

NamesIn(text) ==
    IF text # <<>> /\ text[1] \in {"Task scheduled (", "Message queued for delivery ("}
    THEN {text[2]}
    ELSE {}

\* C25 (as stated): every tool call that has written an IPC file (message,
\* schedule request, pause, resume, cancel, group registration) has returned
\* a result text that contains the generated name of that file.
C25_ResultNamesTheFile ==
    \A w \in lastCall.wrote : w.name \in NamesIn(lastCall.text)

\* C22 (as stated): whenever an invocation has emitted an output with status
\* success, the session file of its session id holds the full turn history of
\* the invocation; an invocation whose session write failed has not reported
\* success.
C22_SuccessMeansSaved ==
    Ended("success") =>
        fs[SessionPath(sessionId)] = JsonFile(StringifySession(messages))

\* the ways runCustomProvider ends, by the output it wrote
EndedBy ==
    CASE ~input.configured -> "configuration"
      [] LastOutput.status = "success" -> "success"
      [] LastOutput.error = NoMessageText -> "protocol"
      [] LastOutput.error = MaxRoundsText -> "budget"
      [] LastOutput.error = MkdirErrorText -> "saving"
      [] OTHER -> "thrown"

\* C30: an invocation of runCustomProvider that has returned or thrown has
\* passed exactly one record to writeOutput, on every path (configuration
\* error, response without message, round-budget abort, success, thrown
\* error, failure while saving the session); before it ends it has passed
\* none, and it throws only together with its one error output.
C30_ExactlyOneOutput ==
    /\ lpc = "ended" => Len(outputs) = 1
    /\ lpc # "ended" => outputs = <<>> /\ ~rethrown
    /\ rethrown => LastOutput.status = "error"

\* C30 witness: the invocation ran a tool round and ended because saveSession
\* threw (mkdirSync failed): the catch block wrote the one output and threw
\* again.
C30_Witness ==
    /\ lpc = "ended"
    /\ EndedBy = "saving"
    /\ rethrown
    /\ executed # <<>>
    /\ Len(outputs) = 1

\* content with the occurrence of old at position i replaced by new, taken
\* character by character
ReplaceVerbatim(content, i, old, new) ==
    SubSeq(content, 1, i - 1) \o new \o SubSeq(content, i + Len(old), Len(content))

\* the text files that a tool call read
FilesRead(call) == {e.path : e \in {x \in call.io : x.op = "read"}}

\* C26 (as stated): Edit replaces exactly the first occurrence of old_string
\* in the file by new_string taken verbatim and leaves every other character
\* of the file, and every other file, unchanged, for every pair of strings;
\* when old_string does not occur in the file, Edit returns an error and the
\* file content is unchanged.
C26_EditReplacesFirstVerbatim ==
    [][(toolCalls' = toolCalls + 1 /\ lastTool'.tool = "Edit")
         => \A p \in FilesRead(lastTool') :
               fs[p].kind = "text"
                  => IF IndexOf(fs[p].chars, StringOr(lastTool'.args.old_string)) = 0
                     THEN /\ fs' = fs
                          /\ lastTool'.text = <<"Error: old_string not found in file">>
                     ELSE fs' = [fs EXCEPT ![p] =
                                    TextFile(ReplaceVerbatim(
                                        fs[p].chars,
                                        IndexOf(fs[p].chars,
                                                StringOr(lastTool'.args.old_string)),
                                        StringOr(lastTool'.args.old_string),
                                        StringOr(lastTool'.args.new_string)))]]_vars

\* the root-relative paths of the files below the sandbox root
FilesBelowRoot == {PathRelative(WORKSPACE_GROUP, p) : p \in {q \in SearchPaths : fs[q].kind # "absent"}}

\* the glob syntax as stated: ** matches any character sequence, directory
\* separators included; * matches any sequence within one path segment; ?
\* matches exactly one character; any other character matches itself
RECURSIVE GlobMatches(_, _)
GlobMatches(p, s) ==
    IF p = <<>> THEN s = <<>>
    ELSE IF Len(p) >= 2 /\ p[1] = "*" /\ p[2] = "*"
    THEN \E k \in 0..Len(s) :
            GlobMatches(SubSeq(p, 3, Len(p)), SubSeq(s, k + 1, Len(s)))
    ELSE IF p[1] = "*"
    THEN \E k \in 0..Len(s) :
            /\ \A j \in 1..k : s[j] # "/"
            /\ GlobMatches(Tail(p), SubSeq(s, k + 1, Len(s)))
    ELSE /\ s # <<>>
         /\ p[1] = "?" \/ p[1] = s[1]
         /\ GlobMatches(Tail(p), Tail(s))

\* the elements of a sequence
Elements(seq) == {seq[i] : i \in 1..Len(seq)}

\* C27 (as stated): Glob returns exactly the files under the sandbox root
\* whose root-relative path matches the pattern, where ** matches any
\* character sequence including directory separators, * matches any sequence
\* within one path segment, and ? matches exactly one character.
C27_GlobReturnsTheMatches ==
    (lastTool.tool = "Glob" /\ lastTool.args.pattern # Missing)
        => /\ Elements(lastTool.found) =
                 {f \in FilesBelowRoot : GlobMatches(lastTool.args.pattern, f)}
           /\ Cardinality(Elements(lastTool.found)) = Len(lastTool.found)
           /\ lastTool.text = NoMatchesText <=> lastTool.found = <<>>

\* the lines of the files below the root that contain the letters of the
\* expression, by file and line number
MatchingLines(re) ==
    {<<f, i>> \in FilesBelowRoot \X (1..2) :
        /\ i <= Len(Split(fs[UnderRoot(f)].chars, "\n"))
        /\ IndexOf(Split(fs[UnderRoot(f)].chars, "\n")[i], re) # 0}

\* C28 (as stated): Grep called without a path argument reports one entry
\* 'relativePath:lineNumber: line' for every line that matches the regular
\* expression, in every text file under the sandbox root at any depth (files
\* directly in the root included), and returns '(no matches)' only when no
\* such line exists.
C28_GrepReportsEveryMatch ==
    (lastTool.tool = "Grep" /\ lastTool.args.path = Missing
        /\ Compiles(lastTool.args.pattern))
        => /\ {<<e.file, e.line>> : e \in Elements(lastTool.found)}
                 = MatchingLines(lastTool.args.pattern)
           /\ Cardinality(Elements(lastTool.found)) = Len(lastTool.found)
           /\ lastTool.text = NoMatchesText
                 => MatchingLines(lastTool.args.pattern) = {}

\* C29: once a configured invocation has built its catalog, the merged tool
\* catalog has pairwise distinct names across the IPC-backed and the built-in
\* tools, so the lookup table holds exactly one executor per advertised tool
\* definition and every advertised name dispatches to the executor registered
\* under that name; the executors that the loop runs are among them.
C29_CatalogNamesDistinct ==
    (lpc # "idle" /\ input.configured)
        => /\ \A i, j \in 1..Len(AllExecutors) :
                i # j => AllExecutors[i].def.function.name
                            # AllExecutors[j].def.function.name
           /\ Len(Tools) = Len(IpcTools) + Len(BuiltinTools)
           /\ Cardinality(DOMAIN ExecutorMap) = Len(Tools)
           /\ \A i \in 1..Len(Tools) :
                /\ Tools[i].function.name \in DOMAIN ExecutorMap
                /\ ExecutorMap[Tools[i].function.name] = AllExecutors[i]
                /\ ExecutorMap[Tools[i].function.name].name = Tools[i].function.name
           /\ ExecutorNames \subseteq DOMAIN ExecutorMap

\* C29 witness: in one round the loop has dispatched a call to an IPC-backed
\* executor and a call to a built-in executor, each found in the lookup table
\* under the name the response gave.
C29_Witness ==
    /\ AfterToolRound
    /\ executed = <<SendHello.id, RemoveMessages.id>>
    /\ ExecutorMap[SendHello.name].source = "ipc"
    /\ ExecutorMap[RemoveMessages.name].source = "builtin"

\* the turns persisted under a session id
Persisted(files, id) == LoadSession(files, id).messages

IsPrefix(s, t) == Len(s) <= Len(t) /\ SubSeq(t, 1, Len(s)) = s

\* C21 (as stated): a session is append-only across invocations: whenever an
\* invocation persists its history under session id S, every turn that was
\* persisted under S before that write is still present, in the same order,
\* as a prefix of the new content; also when two invocations that use the
\* same session id overlap in time.
C21_SessionAppendOnly ==
    [][\A id \in SharedSessionIds :
            fs'[SessionPath(id)] # fs[SessionPath(id)]
                => IsPrefix(Persisted(fs, id), Persisted(fs', id))]_vars

\* the session file the invocation found is missing, is not JSON, or is
\* JSON without a messages array
UnreadableSession ==
    \/ sessionAtStart.kind = "absent"
    \/ sessionAtStart.kind = "text"
    \/ sessionAtStart.kind = "json" /\ ~sessionAtStart.doc.isArray

\* C33: an invocation whose session file is missing, is not JSON or holds no
\* messages array does not fail on it: the step that loads the session
\* writes no output and enters the loop with the new user turn as the only
\* turn of the history.
C33_UnreadableSessionIsEmptyHistory ==
    [][(lpc = "idle" /\ input.configured /\ UnreadableSession)
          => /\ lpc' = "loop"
             /\ messages' = <<UserTurn(PromptOf(input))>>
             /\ outputs' = outputs
             /\ rethrown' = rethrown]_vars

\* the first request of an invocation that found a session file that is not
\* JSON is in flight, and the history is the new user turn alone
C33_Witness ==
    /\ lpc = "awaiting"
    /\ round = 1
    /\ input.sessionId = "s1"
    /\ sessionAtStart.kind = "text"
    /\ messages = <<UserTurn(PromptOf(input))>>

\* what each variant answers to the call of the state; the SDK server checks
\* the arguments of schedule_task against the schema before the handler runs
SdkAnswer(tool, fname) ==
    CASE tool = "send_message" -> SdkSendMessage(ctx, callArgs, clock, fname)
      [] tool = "schedule_task" ->
            IF callArgs.schedule_type \in ScheduleKinds /\ callArgs.schedule_value # Missing
            THEN SdkScheduleTask(ctx, callArgs, clock, fname)
            ELSE Returns(<<"Invalid arguments">>, TRUE, {})
      [] tool = "pause_task" -> SdkPauseTask(ctx, callArgs, clock, fname)
      [] tool = "resume_task" -> SdkResumeTask(ctx, callArgs, clock, fname)
      [] tool = "cancel_task" -> SdkCancelTask(ctx, callArgs, clock, fname)
      [] OTHER -> SdkRegisterGroup(ctx, callArgs, clock, fname)

OaAnswer(tool, fname) ==
    CASE tool = "send_message" -> OaSendMessage(ctx, callArgs, clock, fname)
      [] tool = "schedule_task" -> OaScheduleTask(ctx, callArgs, clock, fname)
      [] tool = "pause_task" -> OaPauseTask(ctx, callArgs, clock, fname)
      [] tool = "resume_task" -> OaResumeTask(ctx, callArgs, clock, fname)
      [] tool = "cancel_task" -> OaCancelTask(ctx, callArgs, clock, fname)
      [] OTHER -> OaRegisterGroup(ctx, callArgs, clock, fname)

\* the payloads of an answer without their timestamp, each with its directory
Untimed(writes) ==
    {[dir |-> w.dir,
      data |-> [k \in DOMAIN w.data \ {"timestamp"} |-> w.data[k]]] : w \in writes}

VariantsAgreeOn(tool, fname) ==
    /\ (SdkAnswer(tool, fname).writes = {}) <=> (OaAnswer(tool, fname).writes = {})
    /\ Untimed(SdkAnswer(tool, fname).writes) = Untimed(OaAnswer(tool, fname).writes)

\* C31: for the context and the arguments of a call that was made, the SDK
\* server and the function-calling executor both accept or both reject, and
\* what they write is the same payload, apart from its timestamp, in the
\* same directory.
C31_VariantsAgree ==
    (lastCall.tool # None /\ ~lastCall.threw)
        => VariantsAgreeOn(lastCall.tool, FileName(clock, "r1"))

\* the order of two random suffixes as texts
SuffixBefore(a, b) == a = "r1" /\ b = "r2"

\* Array.prototype.sort on file names: the stamps are decimal texts of the
\* same length (Date.now() has 13 digits from 2001 to 2286), so their order as
\* texts is their order as numbers; on equal stamps the suffix decides
SortsBefore(n, m) == n[1] < m[1] \/ (n[1] = m[1] /\ SuffixBefore(n[2], m[2]))

\* the files of the directory that process w wrote and that are visible
\* under their final name, other than the one named n
EarlierFiles(w, dir, n) ==
    {e \in dirEntries :
        /\ e.dir = dir
        /\ ~e.tmp
        /\ e.name # n
        /\ inodes[e.ino].content = Stringify(DataOf(w))}

\* a writeIpcFile call of w returns: its file appears under the final name
Publishes(w) == wpc[w] = "written" /\ wpc'[w] = "returned"

\* C32 (as stated): when a process publishes a file into a directory that
\* holds a file it wrote before, the earlier file sorts before the new one
\* by name.
C32_NameOrderIsWriteOrder ==
    [][\A w \in Writers :
          Publishes(w) =>
              \A e \in EarlierFiles(w, wdir[w], wname[w]) :
                  SortsBefore(e.name, wname[w])]_vars

\* C32 (amended): the earlier file sorts before the new one by name, or both
\* names carry the same millisecond stamp (and the random suffixes decide).
C32_NameOrderIsWriteOrderAcrossStamps ==
    [][\A w \in Writers :
          Publishes(w) =>
              \A e \in EarlierFiles(w, wdir[w], wname[w]) :
                  SortsBefore(e.name, wname[w]) \/ e.name[1] = wname[w][1]]_vars

\* one process has written two files into one directory in different
\* milliseconds, and both are visible
C32_Witness ==
    \E w \in Writers : \E e1 \in dirEntries : \E e2 \in dirEntries :
        /\ e1.dir = e2.dir
        /\ ~e1.tmp
        /\ ~e2.tmp
        /\ inodes[e1.ino].content = Stringify(DataOf(w))
        /\ inodes[e2.ino].content = Stringify(DataOf(w))
        /\ e1.name[1] < e2.name[1]

\* a POST to /ask whose body is JSON with a string prompt that is not empty
\* after trimming
ValidAsk(r) ==
    /\ r.method = "POST"
    /\ Pathname(UrlOf(r)) = <<"/ask">>
    /\ r.body.kind = "json"
    /\ r.body.value.prompt.isString
    /\ Trim(r.body.value.prompt.chars) # <<>>

\* the callback of the request has come to its end
RequestOver == hpc \in {"done", "rejected"}

\* C34 (as stated): the agent is started only for a valid POST to /ask, at
\* most once for a request, and a request whose handling is over has
\* received exactly one response, whatever the agent run returned or threw.
C34_OneResponsePerRequest ==
    /\ agentRuns # <<>> => (ValidAsk(req) /\ Len(agentRuns) = 1)
    /\ Len(sent) <= 1
    /\ RequestOver => Len(sent) = 1

====
